---- MODULE Spec2Model ----
(***************************************************************************)
(* Model of the record merger of src/src/lib/letterboxd.ts                 *)
(* (mergeTablesToFilms and its helpers).                                   *)
(*                                                                         *)
(* Representation.  A JavaScript string is a sequence of tokens (each a    *)
(* TLA+ string): "" is <<>>, " good " is <<" ", "good", " ">>.  A value    *)
(* of type T | null is Null (<<>>) or Some(x) (<<x>>).  A number is held   *)
(* in tenths (4.5 is 45, the year 1995 is 19950).  An ISO calendar date    *)
(* "YYYY-MM-DD" is the triple <<y, m, d>>, whose lexicographic order is    *)
(* the order of the ISO strings.  A RawRow is a function from normalised   *)
(* header (the keys of the `map` object getField builds) to cell.          *)
(***************************************************************************)
EXTENDS Integers, Sequences, FiniteSets, TLC

(* ------------------------------------------------------------------ *)
(* Bounds of the model                                                  *)
(* ------------------------------------------------------------------ *)

\* Total number of rows over all the tables of one table set.
MaxRows == 3

(* ------------------------------------------------------------------ *)
(* Values                                                               *)
(* ------------------------------------------------------------------ *)

Null == <<>>

Some(x) == <<x>>

Val(o) == o[1]

\* KnownCsvName, in the order mergeTablesToFilms consumes the tables.
KnownCsvName == <<"watched", "ratings", "reviews", "diary", "watchlist", "profile", "comments">>

Sources == {KnownCsvName[i] : i \in DOMAIN KnownCsvName}

PassOf(source) == CHOOSE i \in DOMAIN KnownCsvName : KnownCsvName[i] = source

SeqToSet(s) == {s[i] : i \in DOMAIN s}

Min(S) == CHOOSE x \in S : \A y \in S : x <= y

Max(S) == CHOOSE x \in S : \A y \in S : x >= y

(* ------------------------------------------------------------------ *)
(* String helpers                                                       *)
(* ------------------------------------------------------------------ *)

IsSpace(c) == c \in {" ", "\t"}

RECURSIVE trimStart(_)
trimStart(s) == IF s # <<>> /\ IsSpace(Head(s)) THEN trimStart(Tail(s)) ELSE s

RECURSIVE trimEnd(_)
trimEnd(s) ==
  IF s # <<>> /\ IsSpace(s[Len(s)]) THEN trimEnd(SubSeq(s, 1, Len(s) - 1)) ELSE s

\* String.prototype.trim
trim(s) == trimEnd(trimStart(s))

\* Lower-casing of one token.
LowerTok(c) ==
  CASE c = "Heat" -> "heat"
    [] c = "HEAT" -> "heat"
    [] c = "Ran" -> "ran"
    [] c = "/Film/" -> "/film/"
    [] c = "Yes" -> "yes"
    [] c = "True" -> "true"
    [] c = "Ratings" -> "ratings"
    [] c = ".CSV" -> ".csv"
    [] OTHER -> c

\* String.prototype.toLowerCase
toLowerCase(s) == [i \in DOMAIN s |-> LowerTok(s[i])]

\* getField: the first alias whose cell is present and not blank; the cell untrimmed.
getField(row, names) ==
  LET hits == {i \in DOMAIN names :
                 names[i] \in DOMAIN row /\ trim(row[names[i]]) # <<>>}
  IN IF hits = {} THEN Null ELSE Some(row[names[Min(hits)]])

\* Tokens that end the slug: the class [^/?#] excludes them.
SlugStop == {"/", "?", "#", "/film/"}

\* extractSlugFromUrl with a slip: the slug keeps its letter case.
extractSlugKeepsCase(url) ==
  LET trimmed == trim(url)
      found == {i \in DOMAIN trimmed :
                  /\ LowerTok(trimmed[i]) = "/film/"
                  /\ i + 1 \in DOMAIN trimmed
                  /\ trimmed[i + 1] \notin SlugStop}
  IN IF trimmed = <<>> \/ found = {}
       THEN Null
       ELSE Some(<<trimmed[Min(found) + 1]>>)

\* extractSlugFromUrl: the segment after the first (case-insensitive) "/film/".
extractSlugFromUrl(url) ==
  LET trimmed == trim(url)
      found == {i \in DOMAIN trimmed :
                  /\ LowerTok(trimmed[i]) = "/film/"
                  /\ i + 1 \in DOMAIN trimmed
                  /\ trimmed[i + 1] \notin SlugStop}
  IN IF trimmed = <<>> \/ found = {}
       THEN Null
       ELSE Some(<<LowerTok(trimmed[Min(found) + 1])>>)

UriNames == <<"letterboxd uri", "letterboxd uri", "uri", "url", "url", "link">>

\* makeKeyFromRow: slug:<slug> when the row's URL has a slug, else the fallback.
makeKeyFromRow(row, fallback) ==
  LET uri == getField(row, UriNames)
      slug == IF uri # Null THEN extractSlugFromUrl(Val(uri)) ELSE Null
  IN IF slug # Null /\ Val(slug) # <<>>
       THEN [key |-> <<"slug:">> \o Val(slug), uri |-> uri]
       ELSE [key |-> fallback, uri |-> uri]

\* parseRewatchFlag
parseRewatchFlag(v) ==
  LET x == toLowerCase(trim(IF v = Null THEN <<>> ELSE Val(v)))
  IN x = <<"yes">> \/ x = <<"true">> \/ x = <<"1">>

(* ------------------------------------------------------------------ *)
(* ./utils: safeNum and toISODateOnly, by their contract                *)
(* ------------------------------------------------------------------ *)

\* safeNum: the number a cell denotes (in tenths), Null when it denotes none.
\* Accepts a decimal comma and the half sign.
safeNum(v) ==
  IF v = Null THEN Null
  ELSE LET s == trim(Val(v))
       IN CASE s = <<"4.5">> -> Some(45)
            [] s = <<"4,5">> -> Some(45)
            [] s = <<"4", "½">> -> Some(45)
            [] s = <<"3">> -> Some(30)
            [] s = <<"5">> -> Some(50)
            [] s = <<"1995">> -> Some(19950)
            [] s = <<"1985">> -> Some(19850)
            [] OTHER -> Null

\* toISODateOnly: the calendar date a cell denotes, Null when it denotes none.
toISODateOnly(v) ==
  IF v = Null THEN Null
  ELSE LET s == trim(Val(v))
       IN CASE s = <<"2024-03-01">> -> Some(<<2024, 3, 1>>)
            [] s = <<"2024-03-01", "T", "21:30:00Z">> -> Some(<<2024, 3, 1>>)
            [] s = <<"2024-03-05">> -> Some(<<2024, 3, 5>>)
            [] s = <<"2022-12-31">> -> Some(<<2022, 12, 31>>)
            [] s = <<"2024-01-05">> -> Some(<<2024, 1, 5>>)
            [] s = <<"2021-03-01">> -> Some(<<2021, 3, 1>>)
            [] OTHER -> Null

(* ------------------------------------------------------------------ *)
(* Dates and sequences                                                  *)
(* ------------------------------------------------------------------ *)

\* The order of ISO date strings ("2022-12-31" < "2024-01-05").
DateLess(a, b) ==
  \/ a[1] < b[1]
  \/ a[1] = b[1] /\ a[2] < b[2]
  \/ a[1] = b[1] /\ a[2] = b[2] /\ a[3] < b[3]

\* Days since 1970-01-01 of a calendar date: new Date(iso + "T00:00:00Z").getTime() / 86400000.
EpochDay(date) ==
  LET y == IF date[2] <= 2 THEN date[1] - 1 ELSE date[1]
      era == y \div 400
      yoe == y - era * 400
      mp == (date[2] + 9) % 12
      doy == (153 * mp + 2) \div 5 + date[3] - 1
      doe == yoe * 365 + yoe \div 4 - yoe \div 100 + doy
  IN era * 146097 + doe - 719468

\* Array.from(new Set(xs)): the first occurrence of each element, in order.
RECURSIVE Dedupe(_)
Dedupe(xs) ==
  IF xs = <<>> THEN <<>>
  ELSE LET init == Dedupe(SubSeq(xs, 1, Len(xs) - 1))
           last == xs[Len(xs)]
       IN IF last \in SeqToSet(init) THEN init ELSE Append(init, last)

\* Array.prototype.sort() of distinct dates, by the given order.
RECURSIVE SortDates(_)
SortDates(S) ==
  IF S = {} THEN <<>>
  ELSE LET m == CHOOSE x \in S : \A y \in S : x = y \/ DateLess(x, y)
       IN <<m>> \o SortDates(S \ {m})

\* The default sort() order of the role names (UTF-16 code units).
SourceRank(source) ==
  CASE source = "comments" -> 1
    [] source = "diary" -> 2
    [] source = "profile" -> 3
    [] source = "ratings" -> 4
    [] source = "reviews" -> 5
    [] source = "watched" -> 6
    [] source = "watchlist" -> 7

RECURSIVE SortSources(_)
SortSources(S) ==
  IF S = {} THEN <<>>
  ELSE LET m == CHOOSE x \in S : \A y \in S : SourceRank(x) <= SourceRank(y)
       IN <<m>> \o SortSources(S \ {m})

\* String.prototype.split(","): the pieces between the "," tokens.
RECURSIVE split(_)
split(s) ==
  LET commas == {i \in DOMAIN s : s[i] = ","}
  IN IF commas = {} THEN <<s>>
     ELSE <<SubSeq(s, 1, Min(commas) - 1)>> \o split(SubSeq(s, Min(commas) + 1, Len(s)))

\* filter(Boolean) on strings: the non-empty ones, in order.
RECURSIVE filterBoolean(_)
filterBoolean(xs) ==
  IF xs = <<>> THEN <<>>
  ELSE (IF Head(xs) # <<>> THEN <<Head(xs)>> ELSE <<>>) \o filterBoolean(Tail(xs))

\* The tag list of a diary row: split on commas, trim, drop the empty pieces.
tagsOf(cell) ==
  LET raw == IF cell = Null THEN <<>> ELSE Val(cell)
      parts == split(raw)
  IN filterBoolean([i \in DOMAIN parts |-> trim(parts[i])])

\* The most characters of a review kept as a sample: slice(0, 500).
ReviewSampleMax == 500

slice(s, n) == SubSeq(s, 1, IF Len(s) < n THEN Len(s) ELSE n)

\* collectSpanYears: years (in hundredths) between the first and the last date.
collectSpanYears(dates) ==
  IF dates = <<>> THEN 0
  ELSE LET sorted == SortDates(SeqToSet(dates))
           days == EpochDay(sorted[Len(sorted)]) - EpochDay(sorted[1])
           \* (days / 365.25).toFixed(2), as an integer number of hundredths
           hundredths == (days * 800 + 1461) \div 2922
       IN Max({0, hundredths})

(* ------------------------------------------------------------------ *)
(* The rows a table may hold                                            *)
(* ------------------------------------------------------------------ *)

UrlHeat == <<"https://letterboxd.com", "/film/", "heat", "/">>

UrlHeatCaps == <<"https://letterboxd.com", "/film/", "Heat">>

UrlRan == <<"https://letterboxd.com", "/film/", "ran", "/">>

HeatNameYear == ("name" :> <<"Heat">>) @@ ("year" :> <<"1995">>)

WatchedRows ==
  { HeatNameYear,
    HeatNameYear @@ ("letterboxd uri" :> UrlHeat) @@ ("date" :> <<"2024-01-05">>)
      @@ ("rating" :> <<"5">>),
    ("date" :> <<"2024-01-05">>) @@ ("name" :> <<" ">>) }

RatingsRows ==
  { HeatNameYear @@ ("rating" :> <<"4.5">>),
    ("name" :> <<"HEAT">>) @@ ("letterboxd uri" :> UrlHeatCaps) @@ ("rating" :> <<"4", "½">>),
    HeatNameYear @@ ("letterboxd uri" :> UrlHeat) @@ ("rating" :> <<"n/a">>) }

ReviewsRows ==
  { HeatNameYear @@ ("letterboxd uri" :> UrlHeat) @@ ("review" :> <<" ", "good", " ">>),
    ("name" :> <<"HEAT">>) @@ ("letterboxd uri" :> UrlHeatCaps) @@ ("review" :> <<" ">>)
      @@ ("rating" :> <<"5">>) @@ ("watched date" :> <<"2024-03-01">>),
    ("name" :> <<"Ran">>) @@ ("year" :> <<"1985">>) @@ ("letterboxd uri" :> UrlRan)
      @@ ("review" :> <<"slow">>) }

DiaryRows ==
  { HeatNameYear @@ ("watched date" :> <<"2024-03-01">>),
    HeatNameYear @@ ("letterboxd uri" :> UrlHeat) @@ ("watched date" :> <<"2024-03-05">>)
      @@ ("logged date" :> <<"2024-01-05">>) @@ ("rating" :> <<"4.5">>)
      @@ ("tags" :> <<"noir", ",", " ", "crime">>),
    ("name" :> <<"HEAT">>) @@ ("letterboxd uri" :> UrlHeatCaps)
      @@ ("logged date" :> <<"2022-12-31">>) @@ ("rewatch" :> <<"Yes">>)
      @@ ("tags" :> <<"crime">>),
    ("name" :> <<"Ran">>) @@ ("letterboxd uri" :> UrlRan) @@ ("watched date" :> <<"soon">>)
      @@ ("review" :> <<"slow">>) }

WatchlistRows ==
  { ("name" :> <<"Ran">>) @@ ("letterboxd uri" :> UrlRan) @@ ("rating" :> <<"3">>) }

ProfileRows ==
  { ("username" :> <<"erik">>) @@ ("date joined" :> <<"2024-01-05">>) }

CommentsRows ==
  { HeatNameYear @@ ("letterboxd uri" :> UrlHeat) @@ ("content" :> <<"good">>)
      @@ ("rating" :> <<"4.5">>) @@ ("date" :> <<"2024-03-01">>),
    ("name" :> <<"Ran">>) @@ ("letterboxd uri" :> UrlRan) @@ ("content" :> <<"lol">>) }

(* ------------------------------------------------------------------ *)
(* State                                                                *)
(* ------------------------------------------------------------------ *)

VARIABLES
  t,                   \* the ExportTables given to mergeTablesToFilms, role -> rows
  cur,                 \* role -> number of rows of that table consumed by this run
  pc,                  \* "merging" until the function returns, then "done"
  run,                 \* 1 for the first call on t, 2 for the second
  map,                 \* Map<FilmKey, FilmRecord>, in insertion order
  fromWatched,         \* Set<FilmKey>
  fromRatings,         \* Set<FilmKey>
  fromReviews,         \* Set<FilmKey>
  importDayMap,        \* Map<string, number>, in insertion order
  diaryDirectDates,    \* string[]
  diaryTimelineDates,  \* string[]
  result,              \* the MergeResult returned, Null before the return
  first,               \* films and anomaly returned by the first call, Null before
  app,                 \* the React state of App that an upload writes
  uploads,             \* the calls of App.onUploadZip so far, each with its position
  kv,                  \* the RLKV namespace: key -> stored string
  reqs,                \* the calls of onRequestPost so far, each with its position
  zip,                 \* the entries of the archive read so far, in Object.keys order
  tables,              \* the ExportTables readLetterboxdExportZipBuffer builds
  merged,              \* the films merged from `tables`, Null before the merge
  streakDays,          \* the list of ISO dates given to the streak functions
  streaks,             \* what the three streak functions returned for it, Null before
  statFilms,           \* the FilmRecord[] given to computeStats
  statPack             \* the StatPack computeStats returned for it, Null before

\* The variables of one call of mergeTablesToFilms.
mergeVars == <<t, cur, pc, run, map, fromWatched, fromRatings, fromReviews, importDayMap,
               diaryDirectDates, diaryTimelineDates, result, first>>

\* The variables of the upload handler, the AI proxy, the archive reader and the
\* streak functions.
otherVars == <<app, uploads, kv, reqs, zip, tables, merged, streakDays, streaks,
               statFilms, statPack>>

vars == <<mergeVars, otherVars>>

\* App before any upload: useState(null), useState("").
AppInit ==
  /\ app = [films |-> Null, stats |-> Null, mergeDebug |-> Null, fileName |-> Null,
            aiText |-> <<>>, toast |-> Null, timers |-> 0]
  /\ uploads = <<>>

\* The AI proxy before any request: an empty KV namespace.
ProxyInit ==
  /\ kv = [k \in {} |-> <<>>]
  /\ reqs = <<>>

\* readLetterboxdExportZipBuffer on entry: `{ files, unknown: {} }`, no role assigned.
ZipInit ==
  /\ zip = <<>>
  /\ tables = [files |-> <<>>, unknown |-> <<>>, roles |-> [s \in Sources |-> Null]]
  /\ merged = Null

\* The streak functions before any call.
StreaksInit ==
  /\ streakDays = <<>>
  /\ streaks = Null

\* computeStats before any call.
StatsInit ==
  /\ statFilms = <<>>
  /\ statPack = Null

TotalRows(tt) ==
  Len(tt.watched) + Len(tt.ratings) + Len(tt.reviews) + Len(tt.diary)
    + Len(tt.watchlist) + Len(tt.profile) + Len(tt.comments)

\* The state on entry of mergeTablesToFilms: empty map, sets and lists; the
\* other parts of the program before their first call.
Init ==
  /\ t = [s \in Sources |-> <<>>]
  /\ cur = [s \in Sources |-> 0]
  /\ pc = "merging"
  /\ run = 1
  /\ map = <<>>
  /\ fromWatched = {}
  /\ fromRatings = {}
  /\ fromReviews = {}
  /\ importDayMap = <<>>
  /\ diaryDirectDates = <<>>
  /\ diaryTimelineDates = <<>>
  /\ result = Null
  /\ first = Null
  /\ AppInit
  /\ ProxyInit
  /\ ZipInit
  /\ StreaksInit
  /\ StatsInit

(* ------------------------------------------------------------------ *)
(* upsert                                                               *)
(* ------------------------------------------------------------------ *)

\* fallbackKey with a slip: the source is left out of the key.
fallbackKeyWithoutSource(source, index) == <<"unknown:", ToString(index)>>

\* The template string `unknown:${source}:${index}`.
fallbackKey(source, index) == <<"unknown:", source, ":", ToString(index)>>

\* The key upsert resolves a row to.
rowKey(row, source, index) == makeKeyFromRow(row, fallbackKey(source, index)).key

\* Position in the map of the record with that key, 0 when there is none.
posOf(m, key) ==
  IF \E i \in DOMAIN m : m[i].key = key
    THEN CHOOSE i \in DOMAIN m : m[i].key = key
    ELSE 0

newRecord(row, source, index) ==
  LET name == getField(row, <<"name", "film", "title">>)
      k == makeKeyFromRow(row, fallbackKey(source, index))
  IN [ key |-> k.key,
       name |-> IF name # Null THEN Val(name) ELSE <<"Unknown">>,
       year |-> safeNum(getField(row, <<"year">>)),
       letterboxdUri |-> k.uri,
       watched |-> FALSE,
       watchedDates |-> <<>>,
       watchedDateEstimatedCount |-> 0,
       rated |-> FALSE,
       rating |-> Null,
       rewatchCount |-> 0,
       reviewCount |-> 0,
       reviewTextSamples |-> <<>>,
       tags |-> <<>>,
       sources |-> <<source>> ]

\* upsert with a slip: a row without slug is skipped.
upsertSkipsNoSlug(m, row, source, index) ==
  LET key == rowKey(row, source, index)
      i == posOf(m, key)
  IN IF key = fallbackKey(source, index)
       THEN m
       ELSE IF i # 0
         THEN IF source \in SeqToSet(m[i].sources)
                THEN m
                ELSE [m EXCEPT ![i].sources = Append(@, source)]
         ELSE Append(m, newRecord(row, source, index))

\* upsert with a slip: a later row overwrites the name, year and URI of the record.
upsertLastWriterWins(m, row, source, index) ==
  LET key == rowKey(row, source, index)
      i == posOf(m, key)
      rec == newRecord(row, source, index)
  IN IF i # 0
       THEN LET m1 == [m EXCEPT ![i].name = rec.name, ![i].year = rec.year,
                                ![i].letterboxdUri = rec.letterboxdUri]
            IN IF source \in SeqToSet(m[i].sources)
                 THEN m1
                 ELSE [m1 EXCEPT ![i].sources = Append(@, source)]
       ELSE Append(m, rec)

\* upsert: the map after the call; the record returned is the one at
\* posOf(upsert(...), rowKey(...)).
upsert(m, row, source, index) ==
  LET key == rowKey(row, source, index)
      i == posOf(m, key)
  IN IF i # 0
       THEN IF source \in SeqToSet(m[i].sources)
              THEN m
              ELSE [m EXCEPT ![i].sources = Append(@, source)]
       ELSE Append(m, newRecord(row, source, index))

(* ------------------------------------------------------------------ *)
(* The passes of mergeTablesToFilms, one row at a time                  *)
(* ------------------------------------------------------------------ *)

\* forEach order: the tables before `source` are consumed, those after untouched.
InPass(source) ==
  /\ pc = "merging"
  /\ \A s \in Sources :
       /\ PassOf(s) < PassOf(source) => cur[s] = Len(t[s])
       /\ PassOf(s) > PassOf(source) => cur[s] = 0

\* The row the pass reaches: the next row of t[source]; in the first run a table
\* set with one more row is any table set, so the row may also be a new one.
Reach(source, row) ==
  /\ InPass(source)
  /\ \/ /\ cur[source] < Len(t[source])
        /\ row = t[source][cur[source] + 1]
        /\ t' = t
     \/ /\ cur[source] = Len(t[source])
        /\ run = 1
        /\ TotalRows(t) < MaxRows
        /\ t' = [t EXCEPT ![source] = Append(@, row)]
  /\ cur' = [cur EXCEPT ![source] = @ + 1]
  /\ UNCHANGED <<pc, run, result, first>>
  /\ UNCHANGED otherVars

\* The import date of a watched row (line 228).
ImportDateOfRow(row) ==
  toISODateOnly(getField(row, <<"watched date", "date", "imported date">>))

RatingNames == <<"rating", "rated", "stars">>

\* The parsed rating of a row (line 234).
RatingOfRow(row) == safeNum(getField(row, RatingNames))

\* watchedRow with a slip: the row's Rating column is written to the record.
watchedRowSetsRating(m, row, idx) ==
  LET m1 == upsert(m, row, "watched", idx)
      i == posOf(m1, rowKey(row, "watched", idx))
      r == RatingOfRow(row)
  IN IF r # Null
       THEN [m1 EXCEPT ![i].watched = TRUE, ![i].rated = TRUE, ![i].rating = r]
       ELSE [m1 EXCEPT ![i].watched = TRUE]

\* watchedRow with a slip: the row's import date is pushed on the timeline.
watchedRowPushesImportDate(m, row, idx) ==
  LET m1 == upsert(m, row, "watched", idx)
      i == posOf(m1, rowKey(row, "watched", idx))
      d == ImportDateOfRow(row)
  IN IF d # Null
       THEN [m1 EXCEPT ![i].watched = TRUE, ![i].watchedDates = Append(@, Val(d))]
       ELSE [m1 EXCEPT ![i].watched = TRUE]

\* watchedRow with a slip: the watched callback resets the rating of the record.
watchedRowClearsRating(m, row, idx) ==
  LET m1 == upsert(m, row, "watched", idx)
      i == posOf(m1, rowKey(row, "watched", idx))
  IN [m1 EXCEPT ![i].watched = TRUE, ![i].rated = FALSE, ![i].rating = Null]

\* The map after the watched callback for (row, idx).
watchedRow(m, row, idx) ==
  LET m1 == upsert(m, row, "watched", idx)
      i == posOf(m1, rowKey(row, "watched", idx))
  IN [m1 EXCEPT ![i].watched = TRUE]

\* importDayMap.set(day, (importDayMap.get(day) || 0) + 1)
bumpDay(days, day) ==
  IF \E i \in DOMAIN days : days[i].day = day
    THEN [i \in DOMAIN days |->
            IF days[i].day = day THEN [days[i] EXCEPT !.count = @ + 1] ELSE days[i]]
    ELSE Append(days, [day |-> day, count |-> 1])

WatchedRow ==
  \E row \in WatchedRows :
    LET idx == cur.watched
        importedDate == ImportDateOfRow(row)
    IN /\ Reach("watched", row)
       /\ map' = watchedRow(map, row, idx)
       /\ fromWatched' = fromWatched \cup {rowKey(row, "watched", idx)}
       /\ importDayMap' = IF importedDate # Null
                            THEN bumpDay(importDayMap, Val(importedDate))
                            ELSE importDayMap
       /\ UNCHANGED <<fromRatings, fromReviews, diaryDirectDates, diaryTimelineDates>>

\* ratingsRow with a slip: the parsed rating is written even when it is null.
ratingsRowOverwrites(m, row, idx) ==
  LET m1 == upsert(m, row, "ratings", idx)
      i == posOf(m1, rowKey(row, "ratings", idx))
      r == RatingOfRow(row)
  IN [m1 EXCEPT ![i].rated = (r # Null), ![i].rating = r]

\* ratingsRow with a slip: the film is marked rated before the rating is parsed.
ratingsRowMarksRated(m, row, idx) ==
  LET m1 == upsert(m, row, "ratings", idx)
      i == posOf(m1, rowKey(row, "ratings", idx))
      r == RatingOfRow(row)
  IN IF r # Null
       THEN [m1 EXCEPT ![i].rated = TRUE, ![i].rating = r]
       ELSE [m1 EXCEPT ![i].rated = TRUE]

\* The map after the ratings callback for (row, idx).
ratingsRow(m, row, idx) ==
  LET m1 == upsert(m, row, "ratings", idx)
      i == posOf(m1, rowKey(row, "ratings", idx))
      r == RatingOfRow(row)
  IN IF r # Null
       THEN [m1 EXCEPT ![i].rated = TRUE, ![i].rating = r]
       ELSE m1

RatingsRow ==
  \E row \in RatingsRows :
    LET idx == cur.ratings
    IN /\ Reach("ratings", row)
       /\ map' = ratingsRow(map, row, idx)
       /\ fromRatings' = fromRatings \cup {rowKey(row, "ratings", idx)}
       /\ UNCHANGED <<fromWatched, fromReviews, importDayMap, diaryDirectDates,
                      diaryTimelineDates>>

\* The map after the reviews callback for (row, idx).
reviewsRow(m, row, idx) ==
  LET m1 == upsert(m, row, "reviews", idx)
      i == posOf(m1, rowKey(row, "reviews", idx))
      txt == getField(row, <<"review", "text", "content">>)
  IN IF txt # Null /\ trim(Val(txt)) # <<>>
       THEN [m1 EXCEPT ![i].reviewCount = @ + 1,
                       ![i].reviewTextSamples =
                          Append(@, slice(trim(Val(txt)), ReviewSampleMax))]
       ELSE [m1 EXCEPT ![i].reviewCount = @ + 1]

ReviewsRow ==
  \E row \in ReviewsRows :
    LET idx == cur.reviews
    IN /\ Reach("reviews", row)
       /\ map' = reviewsRow(map, row, idx)
       /\ fromReviews' = fromReviews \cup {rowKey(row, "reviews", idx)}
       /\ UNCHANGED <<fromWatched, fromRatings, importDayMap, diaryDirectDates,
                      diaryTimelineDates>>

diaryWatchedAt(row) == toISODateOnly(getField(row, <<"watched date", "watched", "date">>))

diaryLoggedAt(row) == toISODateOnly(getField(row, <<"logged date", "logged", "diary date">>))

\* diaryDates with a slip: the logged date is pushed next to the watched date.
diaryDatesPushesBoth(m, i, row) ==
  LET watchedAt == diaryWatchedAt(row)
      loggedAt == diaryLoggedAt(row)
      m1 == IF watchedAt # Null
              THEN [m EXCEPT ![i].watchedDates = Append(@, Val(watchedAt))]
              ELSE m
  IN IF loggedAt # Null
       THEN [m1 EXCEPT ![i].watchedDates = Append(@, Val(loggedAt)),
                       ![i].watchedDateEstimatedCount = @ + 1]
       ELSE m1

\* The dated part of the diary callback: the date pushed, the estimate counted.
diaryDates(m, i, row) ==
  LET watchedAt == diaryWatchedAt(row)
      loggedAt == diaryLoggedAt(row)
  IN IF watchedAt # Null
       THEN [m EXCEPT ![i].watchedDates = Append(@, Val(watchedAt))]
       ELSE IF loggedAt # Null
         THEN [m EXCEPT ![i].watchedDates = Append(@, Val(loggedAt)),
                        ![i].watchedDateEstimatedCount = @ + 1]
         ELSE m

\* The rewatch and tags part of the diary callback.
diaryRewatchTags(m, i, row) ==
  LET m3 == IF parseRewatchFlag(getField(row, <<"rewatch">>))
              THEN [m EXCEPT ![i].rewatchCount = @ + 1]
              ELSE m
      tags == tagsOf(getField(row, <<"tags", "tag">>))
  IN [m3 EXCEPT ![i].tags = @ \o tags]

\* diaryRow with a slip: the row's review text is kept as a sample.
diaryRowKeepsReview(m, row, idx) ==
  LET m1 == upsert(m, row, "diary", idx)
      i == posOf(m1, rowKey(row, "diary", idx))
      txt == getField(row, <<"review", "text", "content">>)
      m2 == diaryRewatchTags(diaryDates(m1, i, row), i, row)
  IN IF txt # Null
       THEN [m2 EXCEPT ![i].reviewTextSamples = Append(@, trim(Val(txt)))]
       ELSE m2

\* diaryRow with a slip: a diary entry marks the film as watched.
diaryRowSetsWatched(m, row, idx) ==
  LET m1 == upsert(m, row, "diary", idx)
      i == posOf(m1, rowKey(row, "diary", idx))
  IN [diaryRewatchTags(diaryDates(m1, i, row), i, row) EXCEPT ![i].watched = TRUE]

\* The map after the diary callback for (row, idx).
diaryRow(m, row, idx) ==
  LET m1 == upsert(m, row, "diary", idx)
      i == posOf(m1, rowKey(row, "diary", idx))
  IN diaryRewatchTags(diaryDates(m1, i, row), i, row)

DiaryRow ==
  \E row \in DiaryRows :
    LET idx == cur.diary
        watchedAt == diaryWatchedAt(row)
        loggedAt == diaryLoggedAt(row)
    IN /\ Reach("diary", row)
       /\ map' = diaryRow(map, row, idx)
       /\ diaryDirectDates' = IF watchedAt # Null
                                THEN Append(diaryDirectDates, Val(watchedAt))
                                ELSE diaryDirectDates
       /\ diaryTimelineDates' = IF watchedAt # Null
                                  THEN Append(diaryTimelineDates, Val(watchedAt))
                                  ELSE IF loggedAt # Null
                                    THEN Append(diaryTimelineDates, Val(loggedAt))
                                    ELSE diaryTimelineDates
       /\ UNCHANGED <<fromWatched, fromRatings, fromReviews, importDayMap>>

\* The map after the watchlist callback for (row, idx): upsert only.
watchlistRow(m, row, idx) == upsert(m, row, "watchlist", idx)

WatchlistRow ==
  \E row \in WatchlistRows :
    /\ Reach("watchlist", row)
    /\ map' = watchlistRow(map, row, cur.watchlist)
    /\ UNCHANGED <<fromWatched, fromRatings, fromReviews, importDayMap,
                   diaryDirectDates, diaryTimelineDates>>

\* The map after the profile callback for (row, idx): upsert only.
profileRow(m, row, idx) == upsert(m, row, "profile", idx)

ProfileRow ==
  \E row \in ProfileRows :
    /\ Reach("profile", row)
    /\ map' = profileRow(map, row, cur.profile)
    /\ UNCHANGED <<fromWatched, fromRatings, fromReviews, importDayMap,
                   diaryDirectDates, diaryTimelineDates>>

\* commentsRow with a slip: the comment is kept as a review sample.
commentsRowAsReview(m, row, idx) ==
  LET m1 == upsert(m, row, "comments", idx)
      i == posOf(m1, rowKey(row, "comments", idx))
      txt == getField(row, <<"review", "text", "content">>)
  IN IF txt # Null
       THEN [m1 EXCEPT ![i].reviewTextSamples = Append(@, trim(Val(txt)))]
       ELSE m1

\* The map after the comments callback for (row, idx): source tracking only.
commentsRow(m, row, idx) == upsert(m, row, "comments", idx)

CommentsRow ==
  \E row \in CommentsRows :
    /\ Reach("comments", row)
    /\ map' = commentsRow(map, row, cur.comments)
    /\ UNCHANGED <<fromWatched, fromRatings, fromReviews, importDayMap,
                   diaryDirectDates, diaryTimelineDates>>

(* ------------------------------------------------------------------ *)
(* Post-processing, anomaly and debug summary; the return               *)
(* ------------------------------------------------------------------ *)

\* postProcess with a slip: the watched dates are deduplicated and left unsorted.
postProcessDatesUnsorted(rec) ==
  [rec EXCEPT !.watchedDates = Dedupe(@),
              !.reviewTextSamples = Dedupe(@),
              !.tags = Dedupe(@),
              !.sources = SortSources(SeqToSet(@))]

\* Lines 287-293: dedupe the collections, sort the dates and the sources.
postProcess(rec) ==
  [rec EXCEPT !.watchedDates = SortDates(SeqToSet(@)),
              !.reviewTextSamples = Dedupe(@),
              !.tags = Dedupe(@),
              !.sources = SortSources(SeqToSet(@))]

\* out: the records in insertion order, post-processed.
outOf(m) == [i \in DOMAIN m |-> postProcess(m[i])]

RECURSIVE Gcd(_, _)
Gcd(a, b) == IF b = 0 THEN a ELSE Gcd(b, a % b)

\* The quotient n / d of two counts (d > 0), as a fraction in lowest terms.
Ratio(n, d) == <<n \div Gcd(n, d), d \div Gcd(n, d)>>

\* `out.length ? n / out.length : 0`
RatioOrZero(n, d) == IF d # 0 THEN Ratio(n, d) ELSE <<0, 1>>

\* An import spike needs at least this many rows on one day.
SpikeMinCount == 20

\* Lines 295-302: the first day, in insertion order, with the largest count.
largestDay(days) ==
  IF days = <<>>
    THEN [count |-> 0, date |-> Null]
    ELSE LET top == Max({days[i].count : i \in DOMAIN days})
             i == Min({j \in DOMAIN days : days[j].count = top})
         IN [count |-> top, date |-> Some(days[i].day)]

\* Lines 304-309.
anomalyOf(out, days, timeline, direct) ==
  LET largest == largestDay(days)
      watchedWithTimeline == Cardinality({i \in DOMAIN out : Len(out[i].watchedDates) > 0})
      watchedDateSpanYears == collectSpanYears(timeline)
      \* spikeRatio >= 0.25, with spikeRatio = 0 when out is empty
      ratioReached == Len(out) # 0 /\ 4 * largest.count >= Len(out)
  IN [ importSpikeDetected |->
         largest.count >= SpikeMinCount /\ ratioReached /\ watchedDateSpanYears > 100,
       largestSingleDayImportCount |-> largest.count,
       largestSingleDayImportDate |-> largest.date,
       percentWithWatchedAt |-> RatioOrZero(watchedWithTimeline, Len(out)),
       watchedDateSpanYears |-> watchedDateSpanYears,
       diaryEntrySpanYears |-> collectSpanYears(direct) ]

\* The number of films in the debug sample.
SampleSize == 5

\* The orders `[...out].sort(() => Math.random() - 0.5)` may produce.
Shuffles(n) == {p \in [1..n -> 1..n] : \A i, j \in 1..n : p[i] = p[j] => i = j}

sampleEntry(f) ==
  [ key |-> f.key,
    name |-> f.name,
    sources |-> f.sources,
    watchDatesCount |-> Len(f.watchedDates),
    hasRating |-> f.rated /\ f.rating # Null,
    hasReview |-> f.reviewCount > 0,
    hasTags |-> Len(f.tags) > 0 ]

\* debugOf with a slip: the onlyIn counters count every rated or reviewed key.
debugOfCountsEveryKey(out, anomaly, watchedKeys, ratingKeys, reviewKeys, shuffle) ==
  LET watchedFilms == {i \in DOMAIN out : out[i].watched}
      ratedFilms == {i \in DOMAIN out : out[i].rated /\ out[i].rating # Null}
      reviewedFilms == {i \in DOMAIN out : out[i].reviewCount > 0}
      random5 == [i \in 1..(IF Len(out) < SampleSize THEN Len(out) ELSE SampleSize) |->
                    out[shuffle[i]]]
  IN [ filmsTotal |-> Len(out),
       watchedTrueCount |-> Cardinality(watchedFilms),
       percentWithWatchedAt |-> anomaly.percentWithWatchedAt,
       ratingsHitRate |-> RatioOrZero(Cardinality(ratedFilms), Len(out)),
       reviewsHitRate |-> RatioOrZero(Cardinality(reviewedFilms), Len(out)),
       onlyInRatingsNotInWatched |-> Cardinality(ratingKeys),
       onlyInReviewsNotInWatched |-> Cardinality(reviewKeys),
       largestSingleDayImportCount |-> anomaly.largestSingleDayImportCount,
       largestSingleDayImportDate |-> anomaly.largestSingleDayImportDate,
       watchedDateSpanYears |-> anomaly.watchedDateSpanYears,
       importSpikeDetected |-> anomaly.importSpikeDetected,
       sampleFilms |-> [i \in DOMAIN random5 |-> sampleEntry(random5[i])] ]

\* Lines 311-338, given the order the shuffle produced.
debugOf(out, anomaly, watchedKeys, ratingKeys, reviewKeys, shuffle) ==
  LET watchedFilms == {i \in DOMAIN out : out[i].watched}
      ratedFilms == {i \in DOMAIN out : out[i].rated /\ out[i].rating # Null}
      reviewedFilms == {i \in DOMAIN out : out[i].reviewCount > 0}
      random5 == [i \in 1..(IF Len(out) < SampleSize THEN Len(out) ELSE SampleSize) |->
                    out[shuffle[i]]]
  IN [ filmsTotal |-> Len(out),
       watchedTrueCount |-> Cardinality(watchedFilms),
       percentWithWatchedAt |-> anomaly.percentWithWatchedAt,
       ratingsHitRate |-> RatioOrZero(Cardinality(ratedFilms), Len(out)),
       reviewsHitRate |-> RatioOrZero(Cardinality(reviewedFilms), Len(out)),
       onlyInRatingsNotInWatched |-> Cardinality(ratingKeys \ watchedKeys),
       onlyInReviewsNotInWatched |-> Cardinality(reviewKeys \ watchedKeys),
       largestSingleDayImportCount |-> anomaly.largestSingleDayImportCount,
       largestSingleDayImportDate |-> anomaly.largestSingleDayImportDate,
       watchedDateSpanYears |-> anomaly.watchedDateSpanYears,
       importSpikeDetected |-> anomaly.importSpikeDetected,
       sampleFilms |-> [i \in DOMAIN random5 |-> sampleEntry(random5[i])] ]

\* All the tables are consumed: post-process, summarise and return.
Return ==
  /\ pc = "merging"
  /\ \A s \in Sources : cur[s] = Len(t[s])
  /\ LET out == outOf(map)
         anomaly == anomalyOf(out, importDayMap, diaryTimelineDates, diaryDirectDates)
     IN \E shuffle \in Shuffles(Len(out)) :
          result' = Some([ films |-> out,
                           anomaly |-> anomaly,
                           debug |-> debugOf(out, anomaly, fromWatched, fromRatings,
                                             fromReviews, shuffle) ])
  /\ map' = outOf(map)
  /\ pc' = "done"
  /\ UNCHANGED <<t, cur, run, first, fromWatched, fromRatings, fromReviews, importDayMap,
                 diaryDirectDates, diaryTimelineDates>>
  /\ UNCHANGED otherVars

\* MergeAgain with a slip: the map is kept from the previous call.
MergeAgainStaleMap ==
  /\ pc = "done"
  /\ run = 1
  /\ run' = 2
  /\ first' = Some([films |-> Val(result).films, anomaly |-> Val(result).anomaly])
  /\ result' = Null
  /\ pc' = "merging"
  /\ cur' = [s \in Sources |-> 0]
  /\ fromWatched' = {}
  /\ fromRatings' = {}
  /\ fromReviews' = {}
  /\ importDayMap' = <<>>
  /\ diaryDirectDates' = <<>>
  /\ diaryTimelineDates' = <<>>
  /\ UNCHANGED <<t, map>>
  /\ UNCHANGED otherVars

\* mergeTablesToFilms is called again on the same table set: fresh locals.
MergeAgain ==
  /\ pc = "done"
  /\ run = 1
  /\ run' = 2
  /\ first' = Some([films |-> Val(result).films, anomaly |-> Val(result).anomaly])
  /\ result' = Null
  /\ pc' = "merging"
  /\ cur' = [s \in Sources |-> 0]
  /\ map' = <<>>
  /\ fromWatched' = {}
  /\ fromRatings' = {}
  /\ fromReviews' = {}
  /\ importDayMap' = <<>>
  /\ diaryDirectDates' = <<>>
  /\ diaryTimelineDates' = <<>>
  /\ t' = t
  /\ UNCHANGED otherVars

Next ==
  \/ WatchedRow
  \/ RatingsRow
  \/ ReviewsRow
  \/ DiaryRow
  \/ WatchlistRow
  \/ ProfileRow
  \/ CommentsRow
  \/ Return

\* One call of mergeTablesToFilms on any table set.
Spec == Init /\ [][Next]_vars

NextTwice ==
  \/ Next
  \/ MergeAgain

\* Two calls of mergeTablesToFilms on the same table set.
SpecTwice == Init /\ [][NextTwice]_vars

(* ------------------------------------------------------------------ *)
(* Properties of the merge                                              *)
(* ------------------------------------------------------------------ *)

Done == pc = "done"

\* The films returned, <<>> before the return.
Films == IF result = Null THEN <<>> ELSE Val(result).films

\* The (1-based) rows of table `source` that upsert resolves to `key`.
RowsResolvingTo(source, key) ==
  {i \in DOMAIN t[source] : rowKey(t[source][i], source, i - 1) = key}

HasSource(f, source) == source \in SeqToSet(f.sources)

ReviewTextOfRow(row) ==
  LET txt == getField(row, <<"review", "text", "content">>)
  IN IF txt = Null THEN <<>> ELSE slice(trim(Val(txt)), ReviewSampleMax)

\* The date a diary row puts on the timeline, Null when it has none.
TimelineDateOfRow(row) ==
  IF diaryWatchedAt(row) # Null THEN diaryWatchedAt(row) ELSE diaryLoggedAt(row)

OtherTables == {"watched", "reviews", "diary", "watchlist", "profile", "comments"}

\* C1: every returned film with a rating has "ratings" among its sources, and
\* the rating is the parsed Rating of a ratings row that resolved to the film:
\* never the Rating column of a row of another table.
C1_RatingOnlyFromRatings ==
  \A n \in DOMAIN Films :
    LET f == Films[n]
    IN f.rating # Null =>
         /\ HasSource(f, "ratings")
         /\ \E i \in RowsResolvingTo("ratings", f.key) :
              RatingOfRow(t.ratings[i]) = f.rating

\* A film that a rating-carrying row of another table resolved to, whose rating
\* is nevertheless null (no ratings row) or the one of its ratings row.
C1_Witness ==
  /\ Done
  /\ \E n, k \in DOMAIN Films :
       /\ Films[n].rating = Null
       /\ \E s \in OtherTables : \E i \in RowsResolvingTo(s, Films[n].key) :
            RatingOfRow(t[s][i]) # Null
       /\ Films[k].rating # Null
       /\ \E s \in OtherTables : \E i \in RowsResolvingTo(s, Films[k].key) :
            RatingOfRow(t[s][i]) \notin {Null, Films[k].rating}

\* C2: every returned film with review text samples has "reviews" among its sources.
C2_ReviewsOnlyFromReviews ==
  \A n \in DOMAIN Films :
    Len(Films[n].reviewTextSamples) > 0 => HasSource(Films[n], "reviews")

\* A film with a review sample that other tables contributed to as well, next to
\* a film without reviews row that a text-carrying row of another table resolved to.
C2_Witness ==
  /\ Done
  /\ \E n, k \in DOMAIN Films :
       /\ Len(Films[n].reviewTextSamples) > 0
       /\ Len(Films[n].sources) > 1
       /\ ~HasSource(Films[k], "reviews")
       /\ \E s \in OtherTables : \E i \in RowsResolvingTo(s, Films[k].key) :
            ReviewTextOfRow(t[s][i]) # <<>>

\* C3: every returned film with watched dates has "diary" among its sources, and
\* each of its dates is the timeline date of a diary row that resolved to it:
\* never the date of a watched-table row.
C3_DatesOnlyFromDiary ==
  \A n \in DOMAIN Films :
    LET f == Films[n]
    IN /\ Len(f.watchedDates) > 0 => HasSource(f, "diary")
       /\ \A d \in SeqToSet(f.watchedDates) :
            \E i \in RowsResolvingTo("diary", f.key) :
              TimelineDateOfRow(t.diary[i]) = Some(d)

\* A film that a dated watched row and a dated diary row resolved to, the import
\* date not among its watched dates; and a watched film with import date and no diary.
C3_Witness ==
  /\ Done
  /\ \E n \in DOMAIN Films :
       /\ Len(Films[n].watchedDates) > 0
       /\ \E i \in RowsResolvingTo("watched", Films[n].key) :
            /\ ImportDateOfRow(t.watched[i]) # Null
            /\ Val(ImportDateOfRow(t.watched[i])) \notin SeqToSet(Films[n].watchedDates)
  /\ \E k \in DOMAIN Films :
       /\ Films[k].watchedDates = <<>>
       /\ \E i \in RowsResolvingTo("watched", Films[k].key) :
            ImportDateOfRow(t.watched[i]) # Null

\* C4 (as claimed): for every returned film, "ratings" is among the sources
\* exactly when the rating is non-null, "reviews" exactly when there are review
\* samples, "diary" exactly when there are watched dates.
C4_ProvenanceBothWays ==
  \A n \in DOMAIN Films :
    LET f == Films[n]
    IN /\ HasSource(f, "ratings") <=> f.rating # Null
       /\ HasSource(f, "reviews") <=> Len(f.reviewTextSamples) > 0
       /\ HasSource(f, "diary") <=> Len(f.watchedDates) > 0

\* C4 (amended): a role is among the sources of a returned film exactly when a
\* row of that table resolved to the film; the rating is non-null exactly when
\* one of those ratings rows has a parseable rating, there are review samples
\* exactly when one of those reviews rows has text, and there are watched dates
\* exactly when one of those diary rows has a parseable watched or logged date.
C4_ProvenanceByRows ==
  Done =>
    \A n \in DOMAIN Films :
      LET f == Films[n]
      IN /\ \A s \in Sources : HasSource(f, s) <=> RowsResolvingTo(s, f.key) # {}
         /\ f.rating # Null <=>
              \E i \in RowsResolvingTo("ratings", f.key) : RatingOfRow(t.ratings[i]) # Null
         /\ Len(f.reviewTextSamples) > 0 <=>
              \E i \in RowsResolvingTo("reviews", f.key) :
                ReviewTextOfRow(t.reviews[i]) # <<>>
         /\ Len(f.watchedDates) > 0 <=>
              \E i \in RowsResolvingTo("diary", f.key) :
                TimelineDateOfRow(t.diary[i]) # Null

\* Films whose ratings, reviews and diary rows all lack the value: the role is
\* among the sources and the field is empty.
C4_Witness ==
  /\ Done
  /\ \E n \in DOMAIN Films : HasSource(Films[n], "ratings") /\ Films[n].rating = Null
  /\ \E n \in DOMAIN Films :
       HasSource(Films[n], "reviews") /\ Films[n].reviewTextSamples = <<>>
  /\ \E n \in DOMAIN Films : HasSource(Films[n], "diary") /\ Films[n].watchedDates = <<>>

\* C5: every review sample of a returned film is the text of a reviews row that
\* resolved to the film, so a text of a comments row is a sample only when it
\* is also the text of such a reviews row; the film a comments row resolved to
\* has "comments" among its sources, and when no row of another table resolved
\* to it, that is all the film has.
C5_CommentsNeverReviews ==
  /\ \A n \in DOMAIN Films : \A x \in SeqToSet(Films[n].reviewTextSamples) :
       \E i \in RowsResolvingTo("reviews", Films[n].key) : ReviewTextOfRow(t.reviews[i]) = x
  /\ Done =>
       \A i \in DOMAIN t.comments : \E n \in DOMAIN Films :
         LET f == Films[n]
         IN /\ f.key = rowKey(t.comments[i], "comments", i - 1)
            /\ HasSource(f, "comments")
            /\ (\A s \in Sources \ {"comments"} : RowsResolvingTo(s, f.key) = {}) =>
                 /\ f.sources = <<"comments">>
                 /\ ~f.watched /\ ~f.rated /\ f.rating = Null
                 /\ f.watchedDates = <<>> /\ f.reviewTextSamples = <<>> /\ f.tags = <<>>
                 /\ f.reviewCount = 0 /\ f.rewatchCount = 0
                 /\ f.watchedDateEstimatedCount = 0

\* A film with a review sample that a comments row with another text resolved to.
C5_Witness ==
  /\ Done
  /\ \E n \in DOMAIN Films : \E i \in RowsResolvingTo("comments", Films[n].key) :
       /\ Films[n].reviewTextSamples # <<>>
       /\ trim(t.comments[i].content) # <<>>
       /\ trim(t.comments[i].content) \notin SeqToSet(Films[n].reviewTextSamples)

\* C6: a returned film is watched exactly when a row of the watched table
\* resolved to it, which is exactly when "watched" is among its sources.
C6_WatchedIffWatchedTable ==
  Done =>
    \A n \in DOMAIN Films :
      /\ Films[n].watched <=> RowsResolvingTo("watched", Films[n].key) # {}
      /\ Films[n].watched <=> HasSource(Films[n], "watched")

\* A watched film next to a film that ratings, reviews or diary rows resolved to
\* and that is not watched.
C6_Witness ==
  /\ Done
  /\ \E n, k \in DOMAIN Films :
       /\ Films[n].watched
       /\ ~Films[k].watched
       /\ HasSource(Films[k], "diary")
       /\ HasSource(Films[k], "ratings") \/ HasSource(Films[k], "reviews")

\* The table set of the end-to-end example: one watched, one ratings and one
\* diary row for Heat (1995), none of them with a URL.
HeatTables ==
  [s \in Sources |->
     CASE s = "watched" -> <<HeatNameYear>>
       [] s = "ratings" -> <<HeatNameYear @@ ("rating" :> <<"4.5">>)>>
       [] s = "diary" -> <<HeatNameYear @@ ("watched date" :> <<"2024-03-01">>)>>
       [] OTHER -> <<>>]

\* C7: merging the Heat tables returns exactly one film, watched, rated 4.5,
\* watched on 2024-03-01, with sources watched, ratings and diary.
C7_HeatIsOneFilm ==
  (Done /\ t = HeatTables) =>
    /\ Len(Films) = 1
    /\ Films[1].watched
    /\ Films[1].rating = Some(45)
    /\ Films[1].watchedDates = <<(<<2024, 3, 1>>)>>
    /\ SeqToSet(Films[1].sources) = {"watched", "ratings", "diary"}

\* The rows of the table set, as (source, 1-based position) pairs.
AllRows == UNION {{<<s, i>> : i \in DOMAIN t[s]} : s \in Sources}

\* The row has neither a URL slug nor a name.
Anonymous(row) ==
  /\ getField(row, <<"name", "film", "title">>) = Null
  /\ makeKeyFromRow(row, <<>>).key = <<>>

\* C8: every row of every table is assigned to exactly one returned film, which
\* has the row's table among its sources; a watched row makes its film watched
\* and each reviews row is counted in its film's reviewCount.
C8_NoSilentDrop ==
  Done =>
    /\ \A x \in AllRows :
         LET key == rowKey(t[x[1]][x[2]], x[1], x[2] - 1)
             hits == {n \in DOMAIN Films : Films[n].key = key}
         IN /\ Cardinality(hits) = 1
            /\ \A n \in hits : HasSource(Films[n], x[1])
    /\ \A n \in DOMAIN Films :
         Films[n].reviewCount = Cardinality(RowsResolvingTo("reviews", Films[n].key))

\* A table set with an anonymous row and with ratings and reviews rows for films
\* that are not in watched.
C8_Witness ==
  /\ Done
  /\ \E x \in AllRows : Anonymous(t[x[1]][x[2]])
  /\ \E n \in DOMAIN Films : HasSource(Films[n], "ratings") /\ ~HasSource(Films[n], "watched")
  /\ \E n \in DOMAIN Films : HasSource(Films[n], "reviews") /\ ~HasSource(Films[n], "watched")

\* C9: an anonymous row gets the key unknown:<source>:<index>, no other row of
\* the table set resolves to that key, and the film returned under it has the
\* row's table as its only source.
C9_SyntheticKeyNeverShared ==
  Done =>
    \A x \in AllRows :
      LET row == t[x[1]][x[2]]
          key == rowKey(row, x[1], x[2] - 1)
      IN Anonymous(row) =>
           /\ key = <<"unknown:", x[1], ":", ToString(x[2] - 1)>>
           /\ \A y \in AllRows : y # x => rowKey(t[y[1]][y[2]], y[1], y[2] - 1) # key
           /\ \A n \in DOMAIN Films : Films[n].key = key => Films[n].sources = <<x[1]>>

\* Anonymous rows at the same index of two tables, and two in one table.
C9_Witness ==
  /\ Done
  /\ \E x, y \in AllRows :
       /\ x[1] # y[1] /\ x[2] = y[2]
       /\ Anonymous(t[x[1]][x[2]]) /\ Anonymous(t[y[1]][y[2]])
  /\ \E x, y \in AllRows :
       /\ x[1] = y[1] /\ x[2] # y[2]
       /\ Anonymous(t[x[1]][x[2]]) /\ Anonymous(t[y[1]][y[2]])

\* C10: the second call on the same table set returns the same set of films,
\* field for field, and the same anomaly values as the first.
C10_SameResultTwice ==
  (Done /\ run = 2) =>
    /\ SeqToSet(Films) = SeqToSet(Val(first).films)
    /\ Len(Films) = Len(Val(first).films)
    /\ Val(result).anomaly = Val(first).anomaly

\* A second call that returned several films, with fields and anomaly values
\* set, and a debug sample in another order than the films.
C10_Witness ==
  /\ Done
  /\ run = 2
  /\ Len(Films) >= 2
  /\ \E n \in DOMAIN Films : Films[n].rating # Null /\ Films[n].watchedDates # <<>>
  /\ Val(result).anomaly.largestSingleDayImportCount > 0
  /\ Val(result).debug.sampleFilms[1].key # Films[1].key

\* C11: the watched dates of every returned film are in strictly ascending
\* order (so without duplicate), whatever the order and the multiplicity of the
\* diary rows that supplied them.
C11_WatchedDatesSortedUnique ==
  Done =>
    \A n \in DOMAIN Films :
      \A i, j \in DOMAIN Films[n].watchedDates :
        i < j => DateLess(Films[n].watchedDates[i], Films[n].watchedDates[j])

\* A film whose diary rows supplied a later date before an earlier one, and one
\* date twice.
C11_Witness ==
  /\ Done
  /\ \E n \in DOMAIN Films : \E i, j, k \in RowsResolvingTo("diary", Films[n].key) :
       /\ i < j /\ i # k /\ j # k
       /\ TimelineDateOfRow(t.diary[i]) # Null
       /\ TimelineDateOfRow(t.diary[j]) # Null
       /\ DateLess(Val(TimelineDateOfRow(t.diary[j])), Val(TimelineDateOfRow(t.diary[i])))
       /\ TimelineDateOfRow(t.diary[k]) = TimelineDateOfRow(t.diary[i])
       /\ Len(Films[n].watchedDates) = 2

\* The default sort() order of the tags the rows hold (UTF-16 code units).
TagRank(tag) ==
  CASE tag = <<"crime">> -> 1
    [] tag = <<"noir">> -> 2

\* C12: the tags of every returned film are in strictly ascending lexicographic
\* order (so without duplicate), whatever the order in which the diary rows
\* supplied them.
C12_TagsSortedUnique ==
  Done =>
    \A n \in DOMAIN Films :
      \A i, j \in DOMAIN Films[n].tags :
        i < j => TagRank(Films[n].tags[i]) < TagRank(Films[n].tags[j])

\* The films that a diary row with a parseable watched date resolved to.
GenuineDated ==
  {n \in DOMAIN Films :
     \E i \in RowsResolvingTo("diary", Films[n].key) : diaryWatchedAt(t.diary[i]) # Null}

\* C18: percentWithWatchedAt is at most the share of films with a genuine watched
\* date: a film whose dates are all logged-date estimates is not in the numerator.
C18_OnlyGenuineDatesCounted ==
  Done =>
    LET p == Val(result).anomaly.percentWithWatchedAt
    IN p[1] * Len(Films) <= Cardinality(GenuineDated) * p[2]

\* The films with `source` and without "watched" among their sources.
OnlyIn(source) ==
  {n \in DOMAIN Films : HasSource(Films[n], source) /\ ~HasSource(Films[n], "watched")}

\* C19: debug.onlyInRatingsNotInWatched is the number of returned films with
\* "ratings" and without "watched" among their sources, and
\* debug.onlyInReviewsNotInWatched the number of those with "reviews" and
\* without "watched".
C19_OnlyInCountersCountFilms ==
  Done =>
    /\ Val(result).debug.onlyInRatingsNotInWatched = Cardinality(OnlyIn("ratings"))
    /\ Val(result).debug.onlyInReviewsNotInWatched = Cardinality(OnlyIn("reviews"))

\* A film that is only in ratings next to a film that is in ratings and in
\* watched: the keys seen in ratings are more than the films only in ratings.
C19_Witness ==
  /\ Done
  /\ OnlyIn("ratings") # {}
  /\ \E n \in DOMAIN Films : HasSource(Films[n], "watched") /\ HasSource(Films[n], "ratings")
  /\ Val(result).debug.onlyInRatingsNotInWatched < Cardinality(fromRatings)

\* The dates and the estimate count that the first n diary rows give the record
\* with that key: one date per row at most, the watched date before the logged one.
RECURSIVE DiaryDatesOf(_, _)
DiaryDatesOf(key, n) ==
  IF n = 0
    THEN [dates |-> <<>>, estimated |-> 0]
    ELSE LET before == DiaryDatesOf(key, n - 1)
             row == t.diary[n]
         IN IF rowKey(row, "diary", n - 1) # key \/ TimelineDateOfRow(row) = Null
              THEN before
              ELSE [dates |-> Append(before.dates, Val(TimelineDateOfRow(row))),
                    estimated |-> before.estimated
                                    + (IF diaryWatchedAt(row) = Null THEN 1 ELSE 0)]

\* C23: each diary row contributes at most one date to its film: the watched
\* date when it has one (the logged date is then not added and nothing is
\* counted as estimated), else the logged date, counted once as estimated, and
\* nothing when it has neither. During the merge the record holds exactly these
\* dates in row order, and the film returned for it the same dates and the same
\* count; the films returned at the end are the records.
C23_DiaryRowGivesOneDate ==
  /\ pc = "merging" =>
       \A i \in DOMAIN map :
         LET d == DiaryDatesOf(map[i].key, cur.diary)
             f == postProcess(map[i])
         IN /\ map[i].watchedDates = d.dates
            /\ map[i].watchedDateEstimatedCount = d.estimated
            /\ SeqToSet(f.watchedDates) = SeqToSet(d.dates)
            /\ f.watchedDateEstimatedCount = d.estimated
  /\ Done => Films = map /\ Len(diaryTimelineDates) <= Len(t.diary)

\* A film with a diary row that has a watched date and another logged date and
\* with a row that has a logged date only, next to a film whose diary row has
\* neither date.
C23_Witness ==
  /\ Done
  /\ \E n, k \in DOMAIN Films :
       /\ \E i, j \in RowsResolvingTo("diary", Films[n].key) :
            /\ diaryWatchedAt(t.diary[i]) # Null
            /\ diaryLoggedAt(t.diary[i]) \notin {Null, diaryWatchedAt(t.diary[i])}
            /\ diaryWatchedAt(t.diary[j]) = Null
            /\ diaryLoggedAt(t.diary[j]) # Null
       /\ Len(Films[n].watchedDates) = 2
       /\ Films[n].watchedDateEstimatedCount = 1
       /\ \E i \in RowsResolvingTo("diary", Films[k].key) :
            TimelineDateOfRow(t.diary[i]) = Null
       /\ Films[k].watchedDates = <<>>

\* The rows consumed so far, as <<role, 1-based index>>.
Consumed == {x \in AllRows : x[2] <= cur[x[1]]}

\* The segment after "/film/" in the URL field of a row as it is written there,
\* Null when the row has no such segment.
RawSlug(row) ==
  LET uri == getField(row, UriNames)
      u == IF uri = Null THEN <<>> ELSE Val(uri)
      at == {i \in DOMAIN u :
               toLowerCase(<<u[i]>>) = <<"/film/">> /\ i < Len(u) /\ u[i + 1] \notin SlugStop}
  IN IF at = {} THEN Null ELSE Some(<<u[Min(at) + 1]>>)

KeyOf(x) == rowKey(t[x[1]][x[2]], x[1], x[2] - 1)

\* C26: every consumed row with a /film/<slug> URL resolves to the record with
\* key slug:<lowercased slug>, of which the map holds exactly one; two such rows
\* resolve to the same record exactly when their slugs are equal up to letter
\* case, whatever their names and years. The rows consumed so far are a table
\* set, for which the code returns outOf(map); the films returned at the end
\* are those, one per key.
C26_SlugIdentity ==
  /\ pc = "merging" =>
       LET withSlug == {x \in Consumed : RawSlug(t[x[1]][x[2]]) # Null}
           slug == [x \in withSlug |-> toLowerCase(Val(RawSlug(t[x[1]][x[2]])))]
           key == [x \in withSlug |-> KeyOf(x)]
           films == outOf(map)
       IN \A x \in withSlug :
            /\ key[x] = <<"slug:">> \o slug[x]
            /\ Cardinality({i \in DOMAIN films : films[i].key = key[x]}) = 1
            /\ \A y \in withSlug : (key[x] = key[y]) <=> (slug[x] = slug[y])
  /\ Done => Films = map /\ \A n, k \in DOMAIN Films : Films[n].key = Films[k].key => n = k

\* Two rows of different tables whose slugs differ in letter case only and whose
\* names differ, and a row with another slug: two films are returned.
C26_Witness ==
  /\ Done
  /\ Len(Films) = 2
  /\ \E x, y, z \in Consumed :
       LET rx == t[x[1]][x[2]]
           ry == t[y[1]][y[2]]
           rz == t[z[1]][z[2]]
       IN /\ x[1] # y[1]
          /\ RawSlug(rx) # Null /\ RawSlug(ry) # Null /\ RawSlug(rz) # Null
          /\ RawSlug(rx) # RawSlug(ry)
          /\ toLowerCase(Val(RawSlug(rx))) = toLowerCase(Val(RawSlug(ry)))
          /\ getField(rx, <<"name">>) # getField(ry, <<"name">>)
          /\ toLowerCase(Val(RawSlug(rz))) # toLowerCase(Val(RawSlug(rx)))

\* The first consumed row, in processing order, that resolves to that key.
FirstRowOf(key) ==
  LET rows == {x \in Consumed : KeyOf(x) = key}
  IN CHOOSE x \in rows :
       \A y \in rows :
         PassOf(x[1]) < PassOf(y[1]) \/ (x[1] = y[1] /\ x[2] <= y[2])

\* C28: at every moment of the merge, the key, name, year and letterboxdUri of
\* a record, and of the film returned for it, are those of the first row, in
\* processing order, that resolved to its key; the rows after it only added
\* their role to sources. The films returned at the end are the records.
C28_FirstWriterWins ==
  /\ pc = "merging" =>
       \A i \in DOMAIN map :
         LET x == FirstRowOf(map[i].key)
             rec == newRecord(t[x[1]][x[2]], x[1], x[2] - 1)
             f == postProcess(map[i])
         IN /\ <<map[i].key, map[i].name, map[i].year, map[i].letterboxdUri>>
                 = <<rec.key, rec.name, rec.year, rec.letterboxdUri>>
            /\ <<f.key, f.name, f.year, f.letterboxdUri>>
                 = <<rec.key, rec.name, rec.year, rec.letterboxdUri>>
            /\ SeqToSet(f.sources) = {y[1] : y \in {z \in Consumed : KeyOf(z) = map[i].key}}
  /\ Done => Films = map /\ Len(Films) = Cardinality({KeyOf(x) : x \in Consumed})

\* A returned film that a later row with another name, another year and another
\* URL resolved to.
C28_Witness ==
  /\ Done
  /\ \E n \in DOMAIN Films : \E y \in Consumed :
       LET rec == newRecord(t[y[1]][y[2]], y[1], y[2] - 1)
       IN /\ KeyOf(y) = Films[n].key
          /\ y # FirstRowOf(Films[n].key)
          /\ rec.name # Films[n].name
          /\ rec.year # Films[n].year
          /\ rec.letterboxdUri # Films[n].letterboxdUri

\* C30: at every moment of the merge and in the result, a film is rated exactly
\* when its rating is not null, also after ratings rows without a parseable
\* rating.
C30_RatedIffRating ==
  /\ \A i \in DOMAIN map : map[i].rated <=> (map[i].rating # Null)
  /\ \A n \in DOMAIN Films : Films[n].rated <=> (Films[n].rating # Null)

\* A film with three ratings rows, the second with a parseable rating, the first
\* and the third without: it is returned rated, with the rating of the second.
C30_Witness ==
  /\ Done
  /\ \E k \in DOMAIN Films : \E i, j, l \in RowsResolvingTo("ratings", Films[k].key) :
       /\ i < j /\ j < l
       /\ RatingOfRow(t.ratings[i]) = Null
       /\ RatingOfRow(t.ratings[j]) # Null
       /\ RatingOfRow(t.ratings[l]) = Null
       /\ Films[k].rated
       /\ Films[k].rating = RatingOfRow(t.ratings[j])

(* ------------------------------------------------------------------ *)
(* App.onUploadZip                                                      *)
(* ------------------------------------------------------------------ *)

\* The most calls of onUploadZip in one behaviour.
MaxUploads == 3

\* The files a user may pick; reading the malformed one rejects.
Files == {"a.zip", "b.zip", "bad.zip"}

Malformed == {"bad.zip"}

\* mergeTablesToMaster(await readLetterboxdExportZip(f)): the result for that archive.
mergeTablesToMaster(f) == [films |-> <<"films", f>>, debug |-> <<"debug", f>>]

\* computeStats(films, label): the StatPack of those films.
computeStats(films) == <<"stats", films[2]>>

\* showToast: the toast is set and a timer to clear it is started.
showToast(a, msg) == [a EXCEPT !.toast = Some(msg), !.timers = @ + 1]

\* onUploadZip(f) up to its await: the state is reset and the read is started.
UploadStart ==
  \E f \in Files :
    /\ Len(uploads) < MaxUploads
    /\ app' = [app EXCEPT !.aiText = <<>>, !.stats = Null, !.films = Null,
                          !.fileName = Some(f), !.mergeDebug = Null]
    /\ uploads' = Append(uploads, [file |-> f, pc |-> "reading"])
    /\ UNCHANGED <<mergeVars, statFilms, statPack>>
    /\ UNCHANGED <<kv, reqs, zip, tables, merged, streakDays, streaks>>

\* The read of a pending call resolves: merge, store, toast.
ReadResolves ==
  \E i \in DOMAIN uploads :
    /\ uploads[i].pc = "reading"
    /\ uploads[i].file \notin Malformed
    /\ LET result_ == mergeTablesToMaster(uploads[i].file)
       IN app' = showToast([app EXCEPT !.films = Some(result_.films),
                                       !.mergeDebug = Some(result_.debug),
                                       !.stats = Some(computeStats(result_.films))],
                           "Import complete.")
    /\ uploads' = [uploads EXCEPT ![i].pc = "stored"]
    /\ UNCHANGED <<mergeVars, statFilms, statPack>>
    /\ UNCHANGED <<kv, reqs, zip, tables, merged, streakDays, streaks>>

\* The read of a pending call rejects: the catch block.
ReadRejects ==
  \E i \in DOMAIN uploads :
    /\ uploads[i].pc = "reading"
    /\ uploads[i].file \in Malformed
    /\ app' = showToast(app, "Import failed. Check ZIP format.")
    /\ uploads' = [uploads EXCEPT ![i].pc = "failed"]
    /\ UNCHANGED <<mergeVars, statFilms, statPack>>
    /\ UNCHANGED <<kv, reqs, zip, tables, merged, streakDays, streaks>>

\* The timer of a toast fires: setToast(null).
ToastExpires ==
  /\ app.timers > 0
  /\ app' = [app EXCEPT !.toast = Null, !.timers = @ - 1]
  /\ UNCHANGED <<mergeVars, statFilms, statPack>>
  /\ UNCHANGED <<uploads, kv, reqs, zip, tables, merged, streakDays, streaks>>

NextUpload ==
  \/ UploadStart
  \/ ReadResolves
  \/ ReadRejects
  \/ ToastExpires

\* Uploads in any number and order, their reads resolving in any order.
SpecUpload == Init /\ [][NextUpload]_vars

\* The file of the upload started last.
LastFile == uploads[Len(uploads)].file

\* C13: whatever the order in which the reads resolve, the films, stats and
\* mergeDebug held in state are never those of an archive whose upload was
\* followed by another upload, and once every read has resolved they are those
\* of the archive uploaded last.
C13_StaleResultDiscarded ==
  uploads # <<>> =>
    /\ app.films # Null => app.films = Some(mergeTablesToMaster(LastFile).films)
    /\ app.mergeDebug # Null => app.mergeDebug = Some(mergeTablesToMaster(LastFile).debug)
    /\ app.stats # Null =>
         app.stats = Some(computeStats(mergeTablesToMaster(LastFile).films))
    /\ (uploads[Len(uploads)].pc = "stored" /\ \A i \in DOMAIN uploads : uploads[i].pc # "reading")
         => app.films # Null /\ app.mergeDebug # Null /\ app.stats # Null

(* ------------------------------------------------------------------ *)
(* functions/api/ai.ts: enforceRateLimit and onRequestPost              *)
(* ------------------------------------------------------------------ *)

\* The most calls of onRequestPost in one behaviour.
MaxRequests == 3

\* Number(env.AI_DAILY_LIMIT || "2") with AI_DAILY_LIMIT unset.
DefaultDailyLimit == 2

\* The environment of the deployment: RLKV bound, one address on the bypass list.
Env == [RLKV |-> TRUE, AI_BYPASS_IPS |-> <<"198.51.100.9">>]

\* getIp(ctx.request) of the callers.
Ips == {"203.0.113.7", "198.51.100.9"}

\* todayKey(): all the calls fall on one UTC day.
todayKey == "2024-03-05"

\* isBypassIp: the address is an element of the comma-separated list.
isBypassIp(env, ip) == ip \in SeqToSet(env.AI_BYPASS_IPS)

\* The template string `ai:${todayKey()}:${ip}`.
rateKey(ip) == <<"ai:", todayKey, ":", ip>>

\* Number(s) of a stored counter.
NumberOf(str) == CHOOSE n \in 0..(MaxRequests + 1) : ToString(n) = str

\* Number((await env.RLKV.get(key)) || "0")
kvCount(store, key) == IF key \in DOMAIN store THEN NumberOf(store[key]) ELSE 0

\* env.RLKV.put(key, value)
kvPut(store, key, value) ==
  [k \in DOMAIN store \cup {key} |-> IF k = key THEN value ELSE store[k]]

\* onRequestPost starts: enforceRateLimit runs up to its first await.
RequestArrives ==
  \E ip \in Ips :
    /\ Len(reqs) < MaxRequests
    /\ reqs' = Append(reqs,
         IF isBypassIp(Env, ip)
           THEN [ip |-> ip, pc |-> "body", ok |-> TRUE, cur |-> 0, used |-> 0,
                 remaining |-> 999999, called |-> FALSE, status |-> 0]
           ELSE IF ~Env.RLKV
             THEN [ip |-> ip, pc |-> "body", ok |-> TRUE, cur |-> 0, used |-> 0,
                   remaining |-> DefaultDailyLimit, called |-> FALSE, status |-> 0]
             ELSE [ip |-> ip, pc |-> "get", ok |-> FALSE, cur |-> 0, used |-> 0,
                   remaining |-> 0, called |-> FALSE, status |-> 0])
    /\ UNCHANGED <<mergeVars, statFilms, statPack>>
    /\ UNCHANGED <<app, uploads, kv, zip, tables, merged, streakDays, streaks>>

\* `await env.RLKV.get(key)` of a call resolves: over the limit is answered 429.
KvGet ==
  \E i \in DOMAIN reqs :
    /\ reqs[i].pc = "get"
    /\ LET cur_ == kvCount(kv, rateKey(reqs[i].ip))
       IN reqs' = IF cur_ >= DefaultDailyLimit
                    THEN [reqs EXCEPT ![i].pc = "answered", ![i].cur = cur_,
                                      ![i].used = cur_, ![i].status = 429]
                    ELSE [reqs EXCEPT ![i].pc = "put", ![i].cur = cur_]
    /\ UNCHANGED <<mergeVars, statFilms, statPack>>
    /\ UNCHANGED <<app, uploads, kv, zip, tables, merged, streakDays, streaks>>

\* `await env.RLKV.put(key, String(next))` of a call resolves: the call passes.
KvPut ==
  \E i \in DOMAIN reqs :
    /\ reqs[i].pc = "put"
    /\ LET next == reqs[i].cur + 1
       IN /\ kv' = kvPut(kv, rateKey(reqs[i].ip), ToString(next))
          /\ reqs' = [reqs EXCEPT ![i].pc = "body", ![i].ok = TRUE, ![i].used = next,
                                  ![i].remaining = Max({0, DefaultDailyLimit - next})]
    /\ UNCHANGED <<mergeVars, statFilms, statPack>>
    /\ UNCHANGED <<app, uploads, zip, tables, merged, streakDays, streaks>>

\* ReadBody with a slip: a call answered 400 gives its unit back.
ReadBodyRefunds ==
  \E i \in DOMAIN reqs : \E outcome \in {"invalid", "nokey", "call"} :
    /\ reqs[i].pc = "body"
    /\ reqs' = CASE outcome = "invalid" ->
                     [reqs EXCEPT ![i].pc = "answered", ![i].status = 400]
                 [] outcome = "nokey" ->
                     [reqs EXCEPT ![i].pc = "answered", ![i].status = 500]
                 [] outcome = "call" ->
                     [reqs EXCEPT ![i].pc = "provider", ![i].called = TRUE]
    /\ kv' = IF outcome = "invalid" /\ rateKey(reqs[i].ip) \in DOMAIN kv
               THEN kvPut(kv, rateKey(reqs[i].ip),
                          ToString(kvCount(kv, rateKey(reqs[i].ip)) - 1))
               ELSE kv
    /\ UNCHANGED <<mergeVars, statFilms, statPack>>
    /\ UNCHANGED <<app, uploads, zip, tables, merged, streakDays, streaks>>

\* `await ctx.request.json()` resolves: no body is answered 400, a missing API
\* key is answered 500 from the catch block, else a provider is called.
ReadBody ==
  \E i \in DOMAIN reqs : \E outcome \in {"invalid", "nokey", "call"} :
    /\ reqs[i].pc = "body"
    /\ reqs' = CASE outcome = "invalid" ->
                     [reqs EXCEPT ![i].pc = "answered", ![i].status = 400]
                 [] outcome = "nokey" ->
                     [reqs EXCEPT ![i].pc = "answered", ![i].status = 500]
                 [] outcome = "call" ->
                     [reqs EXCEPT ![i].pc = "provider", ![i].called = TRUE]
    /\ UNCHANGED <<mergeVars, statFilms, statPack>>
    /\ UNCHANGED <<app, uploads, kv, zip, tables, merged, streakDays, streaks>>

\* The provider answers or throws: 200 with the text, or 500 from the catch block.
ProviderReturns ==
  \E i \in DOMAIN reqs : \E status \in {200, 500} :
    /\ reqs[i].pc = "provider"
    /\ reqs' = [reqs EXCEPT ![i].pc = "answered", ![i].status = status]
    /\ UNCHANGED <<mergeVars, statFilms, statPack>>
    /\ UNCHANGED <<app, uploads, kv, zip, tables, merged, streakDays, streaks>>

NextProxy ==
  \/ RequestArrives
  \/ KvGet
  \/ KvPut
  \/ ReadBody
  \/ ProviderReturns

\* Concurrent calls of onRequestPost on one UTC day.
SpecProxy == Init /\ [][NextProxy]_vars

\* The calls from `ip` that passed enforceRateLimit with ok = true.
Passed(ip) == {i \in DOMAIN reqs : reqs[i].ip = ip /\ reqs[i].ok}

\* C14: with RLKV bound, at most the daily limit of the calls from an address
\* that is not on the bypass list pass enforceRateLimit, however the calls
\* interleave; a call that does not pass is answered 429 and calls no provider.
C14_AtMostDailyLimitPass ==
  \A ip \in Ips :
    ~isBypassIp(Env, ip) =>
      /\ Cardinality(Passed(ip)) <= DefaultDailyLimit
      /\ \A i \in DOMAIN reqs :
           (reqs[i].ip = ip /\ reqs[i].pc = "answered" /\ ~reqs[i].ok) =>
             reqs[i].status = 429 /\ ~reqs[i].called

\* onRequestPost starts when every earlier call has been answered.
RequestArrivesAlone ==
  /\ \A i \in DOMAIN reqs : reqs[i].pc = "answered"
  /\ RequestArrives

NextProxySeq ==
  \/ RequestArrivesAlone
  \/ KvGet
  \/ KvPut
  \/ ReadBody
  \/ ProviderReturns

\* Calls of onRequestPost on one UTC day, one after the other.
SpecProxySeq == Init /\ [][NextProxySeq]_vars

\* The calls from `ip` that have passed the limit check: being served, or
\* answered otherwise than 429.
NotRefused(ip) ==
  {i \in DOMAIN reqs :
     /\ reqs[i].ip = ip
     /\ \/ reqs[i].pc \in {"body", "provider"}
        \/ reqs[i].pc = "answered" /\ reqs[i].status # 429}

\* C27: when the calls come one after the other, the counter stored for an
\* address that is not on the bypass list is the number of its calls that were
\* not answered 429, those answered 400 or 500 included; a call answered 429
\* found the counter at the limit and left it there; the counter never exceeds
\* the limit.
C27_CounterCountsPassedCalls ==
  \A ip \in Ips :
    ~isBypassIp(Env, ip) =>
      /\ kvCount(kv, rateKey(ip)) = Cardinality(NotRefused(ip))
      /\ kvCount(kv, rateKey(ip)) <= DefaultDailyLimit
      /\ \A i \in DOMAIN reqs :
           (reqs[i].ip = ip /\ reqs[i].pc = "answered" /\ reqs[i].status = 429) =>
             /\ reqs[i].used = DefaultDailyLimit
             /\ kvCount(kv, rateKey(ip)) = DefaultDailyLimit

\* Three calls from one address: the first answered 400, the second 500, the
\* third 429, and the counter at 2.
C27_Witness ==
  /\ Len(reqs) = 3
  /\ \A i \in DOMAIN reqs : reqs[i].ip = "203.0.113.7" /\ reqs[i].pc = "answered"
  /\ reqs[1].status = 400
  /\ reqs[2].status = 500
  /\ reqs[3].status = 429
  /\ kv[rateKey("203.0.113.7")] = "2"

(* ------------------------------------------------------------------ *)
(* detectTableName and readLetterboxdExportZipBuffer                    *)
(* ------------------------------------------------------------------ *)

\* The most entries of an archive.
MaxEntries == 3

\* The tokens of `filename` after its last "/": `split("/").pop()`.
RECURSIVE lastSegment(_)
lastSegment(filename) ==
  LET slashes == {i \in DOMAIN filename : filename[i] = "/"}
  IN IF slashes = {} THEN filename
     ELSE lastSegment(SubSeq(filename, Min(slashes) + 1, Len(filename)))

\* detectTableName: the exact names first, then the names that include a role.
detectTableName(filename) ==
  LET b == toLowerCase(filename)
      stem == IF lastSegment(b) # <<>> THEN lastSegment(b) ELSE b
      exact == {i \in DOMAIN KnownCsvName : stem = <<KnownCsvName[i], ".csv">>}
      included == {i \in DOMAIN KnownCsvName : KnownCsvName[i] \in SeqToSet(stem)}
  \* the tests are made in the order of KnownCsvName
  IN IF exact # {} THEN KnownCsvName[Min(exact)]
     ELSE IF included # {} THEN KnownCsvName[Min(included)]
     ELSE "unknown"

\* `f.toLowerCase().endsWith(".csv")`
isCsv(filename) == filename # <<>> /\ LowerTok(filename[Len(filename)]) = ".csv"

\* `tables.unknown[fn] = rows`
setUnknown(unknown, fn, rows) ==
  [k \in DOMAIN unknown \cup {fn} |-> IF k = fn THEN rows ELSE unknown[k]]

\* readEntry with a slip: the first entry of a role is kept, later ones are dropped.
readEntryKeepsFirst(tb, entry) ==
  IF ~isCsv(entry.name) THEN tb
  ELSE LET kind == detectTableName(entry.name)
           tb1 == [tb EXCEPT !.files = Append(@, entry.name)]
       IN IF kind \in Sources
            THEN IF tb.roles[kind] # Null
                   THEN tb1
                   ELSE [tb1 EXCEPT !.roles[kind] = Some(entry.rows)]
            ELSE [tb1 EXCEPT !.unknown = setUnknown(@, entry.name, entry.rows)]

\* One entry of the archive: kept in `files` and read when it is a .csv, its
\* rows assigned to the role detectTableName gives, or to unknown under its name.
readEntry(tb, entry) ==
  IF ~isCsv(entry.name) THEN tb
  ELSE LET kind == detectTableName(entry.name)
           tb1 == [tb EXCEPT !.files = Append(@, entry.name)]
       IN IF kind \in Sources
            THEN [tb1 EXCEPT !.roles[kind] = Some(entry.rows)]
            ELSE [tb1 EXCEPT !.unknown = setUnknown(@, entry.name, entry.rows)]

\* `{ files, unknown: {} }`
emptyTables == [files |-> <<>>, unknown |-> <<>>, roles |-> [s \in Sources |-> Null]]

\* readLetterboxdExportZipBuffer of an archive with these entries.
RECURSIVE readEntries(_)
readEntries(entries) ==
  IF entries = <<>> THEN emptyTables
  ELSE readEntry(readEntries(SubSeq(entries, 1, Len(entries) - 1)), entries[Len(entries)])

\* The callback of the pass over table `source`, for (row, idx).
applyRow(m, source, row, idx) ==
  CASE source = "watched" -> watchedRow(m, row, idx)
    [] source = "ratings" -> ratingsRow(m, row, idx)
    [] source = "reviews" -> reviewsRow(m, row, idx)
    [] source = "diary" -> diaryRow(m, row, idx)
    [] source = "watchlist" -> watchlistRow(m, row, idx)
    [] source = "profile" -> profileRow(m, row, idx)
    [] source = "comments" -> commentsRow(m, row, idx)

\* `(t[source] || []).forEach(...)` over the first n rows.
RECURSIVE forEachRow(_, _, _, _)
forEachRow(m, source, rows, n) ==
  IF n = 0 THEN m
  ELSE applyRow(forEachRow(m, source, rows, n - 1), source, rows[n], n - 1)

\* `t[source] || []`
rowsOf(tb, source) == IF tb.roles[source] = Null THEN <<>> ELSE Val(tb.roles[source])

\* The map after the first k passes of mergeTablesToFilms.
RECURSIVE passes(_, _)
passes(tb, k) ==
  IF k = 0 THEN <<>>
  ELSE LET rows == rowsOf(tb, KnownCsvName[k])
       IN forEachRow(passes(tb, k - 1), KnownCsvName[k], rows, Len(rows))

\* mergeFilms with a slip: the rows of the unknown tables are merged as watched rows.
mergeFilmsWithUnknown(tb) ==
  LET names == DOMAIN tb.unknown
      extra == IF names = {} THEN <<>> ELSE tb.unknown[CHOOSE fn \in names : TRUE]
      m == passes(tb, Len(KnownCsvName))
  IN outOf(forEachRow(m, "watched", extra, Len(extra)))

\* mergeTablesToFilms(tb).films
mergeFilms(tb) == outOf(passes(tb, Len(KnownCsvName)))

\* The entries an archive may hold: name and parsed rows.
RanRow == ("name" :> <<"Ran">>) @@ ("year" :> <<"1985">>) @@ ("letterboxd uri" :> UrlRan)

Entries ==
  { [name |-> <<"watched", ".csv">>,
     rows |-> <<HeatNameYear @@ ("letterboxd uri" :> UrlHeat)>>],
    [name |-> <<"deleted", "/", "watched", ".csv">>, rows |-> <<RanRow>>],
    [name |-> <<"extra", ".csv">>, rows |-> <<RanRow, HeatNameYear>>],
    [name |-> <<"Ratings", ".CSV">>,
     rows |-> <<HeatNameYear @@ ("letterboxd uri" :> UrlHeat) @@ ("rating" :> <<"4.5">>)>>],
    [name |-> <<"likes", "/", "films", ".csv">>, rows |-> <<RanRow>>],
    [name |-> <<"my-", "diary", "-old", ".csv">>,
     rows |-> <<RanRow @@ ("watched date" :> <<"2024-03-01">>)>>],
    [name |-> <<"watched", "-backup", ".csv">>,
     rows |-> <<RanRow @@ ("date" :> <<"2024-01-05">>)>>],
    [name |-> <<"notes", ".txt">>, rows |-> <<>>] }

\* The loop of readLetterboxdExportZipBuffer reaches the next entry of the archive.
ReadEntry ==
  \E entry \in Entries :
    /\ merged = Null
    /\ Len(zip) < MaxEntries
    /\ \A i \in DOMAIN zip : zip[i].name # entry.name
    /\ zip' = Append(zip, entry)
    /\ tables' = readEntry(tables, entry)
    /\ UNCHANGED <<mergeVars, statFilms, statPack>>
    /\ UNCHANGED <<app, uploads, kv, reqs, merged, streakDays, streaks>>

\* The tables are returned and merged.
MergeTables ==
  /\ merged = Null
  /\ merged' = Some(mergeFilms(tables))
  /\ UNCHANGED <<mergeVars, statFilms, statPack>>
  /\ UNCHANGED <<app, uploads, kv, reqs, zip, tables, streakDays, streaks>>

NextZip ==
  \/ ReadEntry
  \/ MergeTables

\* An archive is read entry by entry and its tables are merged.
SpecZip == Init /\ [][NextZip]_vars

\* The archive without its entry at position i.
ZipWithout(i) == SubSeq(zip, 1, i - 1) \o SubSeq(zip, i + 1, Len(zip))

HasSeparator(filename) == "/" \in SeqToSet(filename)

\* C15: a .csv entry whose name has a path separator is assigned to no role:
\* its rows are under unknown, under its name, and the films merged are those
\* of the archive without the entry.
C15_SubPathNeverRole ==
  merged # Null =>
    \A i \in DOMAIN zip :
      (isCsv(zip[i].name) /\ HasSeparator(zip[i].name)) =>
        /\ zip[i].name \in DOMAIN tables.unknown
        /\ tables.unknown[zip[i].name] = zip[i].rows
        /\ merged = Some(mergeFilms(readEntries(ZipWithout(i))))

\* C16: a .csv entry whose name matches no role is under unknown, under its
\* name, with its rows; the roles and the films merged are those of the archive
\* without the entry.
C16_UnknownKeptNotMerged ==
  merged # Null =>
    \A i \in DOMAIN zip :
      (isCsv(zip[i].name) /\ detectTableName(zip[i].name) = "unknown") =>
        /\ zip[i].name \in DOMAIN tables.unknown
        /\ tables.unknown[zip[i].name] = zip[i].rows
        /\ tables.roles = readEntries(ZipWithout(i)).roles
        /\ merged = Some(mergeFilms(readEntries(ZipWithout(i))))

\* An archive with extra.csv, whose rows name films, next to tables that are
\* merged into films: the film that only extra.csv names is not among them.
C16_Witness ==
  /\ merged # Null
  /\ Val(merged) # <<>>
  /\ \E i \in DOMAIN zip :
       /\ zip[i].name = <<"extra", ".csv">>
       /\ \E j \in DOMAIN zip[i].rows :
            \A n \in DOMAIN Val(merged) :
              Val(merged)[n].key # rowKey(zip[i].rows[j], "watched", j - 1)

\* The positions in the archive of the .csv entries classified to that role.
EntriesOfRole(source) ==
  {i \in DOMAIN zip : isCsv(zip[i].name) /\ detectTableName(zip[i].name) = source}

\* C29: the table of every role is the rows of the last .csv entry, in archive
\* order, classified to the role (no table when there is none), and the tables
\* under unknown are those of the unclassified .csv entries: the rows of an
\* earlier entry of a role are in no table, and its name is in the files list.
C29_LastEntryOfRoleWins ==
  /\ \A s \in Sources :
       tables.roles[s] = IF EntriesOfRole(s) = {} THEN Null
                         ELSE Some(zip[Max(EntriesOfRole(s))].rows)
  /\ DOMAIN tables.unknown = {zip[i].name : i \in EntriesOfRole("unknown")}
  /\ \A i \in EntriesOfRole("unknown") : tables.unknown[zip[i].name] = zip[i].rows
  /\ \A i \in DOMAIN zip : isCsv(zip[i].name) => zip[i].name \in SeqToSet(tables.files)
  /\ merged # Null =>
       \A s \in Sources : \A i \in EntriesOfRole(s) :
         i # Max(EntriesOfRole(s)) =>
           \A j \in DOMAIN zip[i].rows :
             zip[i].rows[j] \notin SeqToSet(zip[Max(EntriesOfRole(s))].rows) =>
               zip[i].rows[j] \notin SeqToSet(rowsOf(tables, s))

\* An archive with watched.csv and, later, watched-backup.csv with other rows:
\* the watched table is the rows of the backup and the film that only
\* watched.csv names is not among the merged films.
C29_Witness ==
  /\ merged # Null
  /\ \E i, j \in EntriesOfRole("watched") :
       /\ i < j
       /\ j = Max(EntriesOfRole("watched"))
       /\ zip[i].name = <<"watched", ".csv">>
       /\ zip[j].name = <<"watched", "-backup", ".csv">>
       /\ zip[i].rows # zip[j].rows
       /\ tables.roles.watched = Some(zip[j].rows)
       /\ \A n \in DOMAIN Val(merged) :
            Val(merged)[n].key # rowKey(zip[i].rows[1], "watched", 0)

(* ------------------------------------------------------------------ *)
(* The passes of mergeTablesToFilms in another order                    *)
(* ------------------------------------------------------------------ *)

\* The map after the first k forEach blocks of lines 223-285 when the blocks
\* stand in the order `order`.
RECURSIVE passesInOrder(_, _, _)
passesInOrder(tt, order, k) ==
  IF k = 0 THEN <<>>
  ELSE forEachRow(passesInOrder(tt, order, k - 1), order[k], tt[order[k]],
                  Len(tt[order[k]]))

\* The films returned when the blocks stand in that order.
mergeFilmsInOrder(tt, order) == outOf(passesInOrder(tt, order, Len(order)))

\* The orders of the tables that hold rows; the block of an empty table does
\* nothing wherever it stands.
Orders(tt) ==
  LET S == {s \in Sources : tt[s] # <<>>}
  IN {order \in [1..Cardinality(S) -> S] :
        \A i, j \in 1..Cardinality(S) : i # j => order[i] # order[j]}

\* The fields of a film that the claim says do not depend on the order.
OrderFree(f) ==
  [ watched |-> f.watched, rated |-> f.rated, rating |-> f.rating,
    watchedDates |-> f.watchedDates,
    reviewTextSamples |-> SeqToSet(f.reviewTextSamples),
    tags |-> SeqToSet(f.tags), sources |-> SeqToSet(f.sources) ]

\* C24: whatever the order in which the tables are processed, the films
\* returned have the same keys and every film has the same watched, rated,
\* rating, watchedDates, set of review samples, set of tags and set of sources
\* as the film with that key that is returned for the order of the code. The
\* rows consumed so far are a table set, for which the code returns outOf(map);
\* the films returned at the end are those.
C24_TableOrderIndependent ==
  /\ pc = "merging" =>
       LET films == outOf(map)
       IN \A order \in Orders(t) :
            LET other == mergeFilmsInOrder(t, order)
            IN /\ {other[n].key : n \in DOMAIN other} = {films[n].key : n \in DOMAIN films}
               /\ \A n \in DOMAIN other : \A k \in DOMAIN films :
                    other[n].key = films[k].key => OrderFree(other[n]) = OrderFree(films[k])
  /\ Done => Films = map

\* Three tables with rows for one film, of which another order returns the
\* film with another name: it is watched and rated in both.
C24_Witness ==
  /\ Done
  /\ Cardinality(Orders(t)) = 6
  /\ \E order \in Orders(t) :
       LET other == mergeFilmsInOrder(t, order)
       IN \E n \in DOMAIN other : \E k \in DOMAIN Films :
            /\ other[n].key = Films[k].key
            /\ other[n].name # Films[k].name
            /\ Films[k].watched /\ Films[k].rated
            /\ Len(Films[k].sources) = 3

(* ------------------------------------------------------------------ *)
(* Streaks: computeStreaks, longestStreak and computeLongestStreak      *)
(* ------------------------------------------------------------------ *)

\* The most dates in a list given to the streak functions.
MaxDays == 4

\* The streaks kept in `top`: slice(0, 3).
TopStreaks == 3

\* ymdToEpochDay (stats.ts) and dateToEpochDay (verify script, other variant).
ymdToEpochDay(iso) == EpochDay(iso)

dateToEpochDay(iso) == EpochDay(iso)

\* The streak that ends the run from `start` to `prev`.
streakOf(start, prev) ==
  [start |-> start, end |-> prev, days |-> ymdToEpochDay(prev) - ymdToEpochDay(start) + 1]

\* The loop of computeStreaks from index i (1-based), and the push after it.
RECURSIVE streakLoop(_, _, _, _, _)
streakLoop(unique, i, start, prev, acc) ==
  IF i > Len(unique) THEN Append(acc, streakOf(start, prev))
  ELSE LET cur_ == unique[i]
       IN IF ymdToEpochDay(cur_) = ymdToEpochDay(prev) + 1
            THEN streakLoop(unique, i + 1, start, cur_, acc)
            ELSE streakLoop(unique, i + 1, cur_, cur_, Append(acc, streakOf(start, prev)))

\* `streaks.sort((a, b) => b.days - a.days)`: longest first, equal lengths in order.
RECURSIVE sortByDaysDesc(_)
sortByDaysDesc(xs) ==
  IF xs = <<>> THEN <<>>
  ELSE LET top == Max({xs[i].days : i \in DOMAIN xs})
           i == Min({j \in DOMAIN xs : xs[j].days = top})
       IN <<xs[i]>> \o sortByDaysDesc(SubSeq(xs, 1, i - 1) \o SubSeq(xs, i + 1, Len(xs)))

\* computeStreaks with a slip: the distinct dates are left in the order given.
computeStreaksUnsorted(ds) ==
  IF ds = <<>> THEN [longest |-> 0, top |-> <<>>]
  ELSE LET unique == Dedupe(ds)
           sorted == sortByDaysDesc(streakLoop(unique, 2, unique[1], unique[1], <<>>))
       IN [longest |-> sorted[1].days, top |-> slice(sorted, TopStreaks)]

\* computeStreaks (stats.ts)
computeStreaks(ds) ==
  IF ds = <<>> THEN [longest |-> 0, top |-> <<>>]
  ELSE LET unique == SortDates(SeqToSet(ds))
           sorted == sortByDaysDesc(streakLoop(unique, 2, unique[1], unique[1], <<>>))
       IN [longest |-> sorted[1].days, top |-> slice(sorted, TopStreaks)]

\* The loop the two reference functions share: the best run and the current one.
RECURSIVE runLoop(_, _, _, _)
runLoop(sorted, i, best, cur_) ==
  IF i > Len(sorted) THEN best
  ELSE LET c == IF dateToEpochDay(sorted[i]) = dateToEpochDay(sorted[i - 1]) + 1
                  THEN cur_ + 1
                  ELSE 1
       IN runLoop(sorted, i + 1, IF c > best THEN c ELSE best, c)

\* longestStreak (scripts/verify-sample.mjs)
longestStreak(ds) ==
  LET sorted == SortDates(SeqToSet(ds))
  IN IF sorted = <<>> THEN 0 ELSE runLoop(sorted, 2, 1, 1)

\* computeLongestStreak (the other statistics variant)
computeLongestStreak(ds) ==
  IF ds = <<>> THEN 0 ELSE runLoop(SortDates(SeqToSet(ds)), 2, 1, 1)

\* The dates a list may hold: around a year end and around the end of February
\* of a leap year and of a common year.
StreakDates ==
  { <<2023, 2, 28>>, <<2023, 3, 1>>, <<2023, 12, 31>>, <<2024, 1, 1>>, <<2024, 1, 2>>,
    <<2024, 2, 28>>, <<2024, 2, 29>>, <<2024, 3, 1>> }

\* The caller adds a date to the list.
PushDay ==
  \E d \in StreakDates :
    /\ streaks = Null
    /\ Len(streakDays) < MaxDays
    /\ streakDays' = Append(streakDays, d)
    /\ UNCHANGED <<mergeVars, statFilms, statPack>>
    /\ UNCHANGED <<app, uploads, kv, reqs, zip, tables, merged, streaks>>

\* The three functions are applied to the list.
ComputeStreaks ==
  /\ streaks = Null
  /\ streaks' = Some([ computeStreaks |-> computeStreaks(streakDays),
                       longestStreak |-> longestStreak(streakDays),
                       computeLongestStreak |-> computeLongestStreak(streakDays) ])
  /\ UNCHANGED <<mergeVars, statFilms, statPack>>
  /\ UNCHANGED <<app, uploads, kv, reqs, zip, tables, merged, streakDays>>

NextStreaks ==
  \/ PushDay
  \/ ComputeStreaks

\* The streak functions on any list of dates.
SpecStreaks == Init /\ [][NextStreaks]_vars

IsLeapYear(y) == y % 4 = 0 /\ (y % 100 # 0 \/ y % 400 = 0)

DaysInMonth(y, m) ==
  CASE m = 2 -> IF IsLeapYear(y) THEN 29 ELSE 28
    [] m \in {4, 6, 9, 11} -> 30
    [] OTHER -> 31

\* The calendar day after `date`.
NextDay(date) ==
  IF date[3] < DaysInMonth(date[1], date[2]) THEN <<date[1], date[2], date[3] + 1>>
  ELSE IF date[2] < 12 THEN <<date[1], date[2] + 1, 1>>
  ELSE <<date[1] + 1, 1, 1>>

\* The number of calendar-consecutive days of S from `date` on.
RECURSIVE RunFrom(_, _)
RunFrom(S, date) == IF date \notin S THEN 0 ELSE 1 + RunFrom(S, NextDay(date))

\* The length of the longest run of calendar-consecutive days in S.
LongestRun(S) == IF S = {} THEN 0 ELSE Max({RunFrom(S, date) : date \in S})

\* C20: computeStreaks(days).longest is the length of the longest run of
\* calendar-consecutive days among the distinct dates of the list (0 for the
\* empty list), and longestStreak and computeLongestStreak return the same number.
C20_LongestStreakIsLongestRun ==
  streaks # Null =>
    /\ Val(streaks).computeStreaks.longest = LongestRun(SeqToSet(streakDays))
    /\ Val(streaks).longestStreak = Val(streaks).computeStreaks.longest
    /\ Val(streaks).computeLongestStreak = Val(streaks).computeStreaks.longest

\* A list with a date twice, not in ascending order, whose longest run has three
\* days and crosses a month or year boundary.
C20_Witness ==
  /\ streaks # Null
  /\ Val(streaks).computeStreaks.longest = 3
  /\ \E i, j \in DOMAIN streakDays : i < j /\ streakDays[i] = streakDays[j]
  /\ \E i, j \in DOMAIN streakDays : i < j /\ DateLess(streakDays[j], streakDays[i])
  /\ \E d \in SeqToSet(streakDays) :
       NextDay(d) \in SeqToSet(streakDays) /\ NextDay(d)[3] = 1

(* ------------------------------------------------------------------ *)
(* computeStats: totals and rating histogram                            *)
(* ------------------------------------------------------------------ *)

\* The most films in a list given to computeStats.
MaxStatFilms == 3

\* What computeStats reads of a film besides its rating: watched in watched.csv,
\* not watched at all, or not in watched.csv but with a logged diary date.
StatFilmKinds ==
  { [watched |-> TRUE, watchedAtDates |-> <<>>, loggedAtDates |-> <<>>],
    [watched |-> FALSE, watchedAtDates |-> <<>>, loggedAtDates |-> <<>>],
    [watched |-> FALSE, watchedAtDates |-> <<>>, loggedAtDates |-> << <<2024, 3, 1>> >>] }

\* The ratings of the films, in hundredths of a star: none, 0.25, 3, 4.3, 5.3.
StatRatings == {Null, Some(25), Some(300), Some(430), Some(530)}

\* The films of a list: rated exactly when the rating is not null, as merged.
StatFilms ==
  {[ watched |-> k.watched, watchedAtDates |-> k.watchedAtDates,
     loggedAtDates |-> k.loggedAtDates, rated |-> (r # Null), rating |-> r ] :
     k \in StatFilmKinds, r \in StatRatings}

\* films.filter((f) => f.watched || f.watchedAtDates.length > 0 || f.loggedAtDates.length > 0)
watchedFilms(films) ==
  SelectSeq(films, LAMBDA f : \/ f.watched
                              \/ Len(f.watchedAtDates) > 0
                              \/ Len(f.loggedAtDates) > 0)

\* films.filter((f) => f.rated && f.rating !== null)
ratedFilms(films) == SelectSeq(films, LAMBDA f : f.rated /\ f.rating # Null)

\* Math.round(r * 10) / 10, r in hundredths.
round10(r) == ((r + 5) \div 10) * 10

\* ratingBucketsHalfStars: for (r = 0.5; r <= 5; r += 0.5) out.push(round(r * 10) / 10)
RECURSIVE ratingBucketsFrom(_)
ratingBucketsFrom(r) ==
  IF r <= 500 THEN <<round10(r)>> \o ratingBucketsFrom(r + 50) ELSE <<>>

ratingBucketsHalfStars == ratingBucketsFrom(50)

\* The snap with a slip: Math.floor instead of Math.round.
snappedDown(r) == ((2 * r) \div 100) * 50

\* Math.round(r * 2) / 2, r in hundredths: Math.round rounds a half upwards.
snapped(r) == ((2 * r + 50) \div 100) * 50

\* histMap.set(key, (histMap.get(key) || 0) + 1)
histBump(histMap, key) ==
  [k \in DOMAIN histMap \cup {key} |->
     IF k = key THEN (IF key \in DOMAIN histMap THEN histMap[key] ELSE 0) + 1
     ELSE histMap[k]]

\* histMap after the loop over the first n ratings.
RECURSIVE histLoop(_, _)
histLoop(ratingNums, n) ==
  IF n = 0 THEN [r \in SeqToSet(ratingBucketsHalfStars) |-> 0]
  ELSE histBump(histLoop(ratingNums, n - 1), snapped(ratingNums[n]))

\* histMap.get(key) || 0
histGet(histMap, key) == IF key \in DOMAIN histMap THEN histMap[key] ELSE 0

\* histogram.reduce((a, b) => (b.count > a.count ? b : a), { rating: 0, count: -1 })
RECURSIVE modePairOf(_, _)
modePairOf(histogram, n) ==
  IF n = 0 THEN [rating |-> 0, count |-> -1]
  ELSE LET a == modePairOf(histogram, n - 1)
       IN IF histogram[n].count > a.count THEN histogram[n] ELSE a

\* StatPack.ratings: histogram, mode and indecisiveShare.
computeStatsRatings(films) ==
  LET rated == ratedFilms(films)
      ratingNums == [n \in DOMAIN rated |-> Val(rated[n].rating)]
      histBuckets == ratingBucketsHalfStars
      histMap == histLoop(ratingNums, Len(ratingNums))
      histogram == [i \in DOMAIN histBuckets |->
                      [rating |-> histBuckets[i], count |-> histGet(histMap, histBuckets[i])]]
      modePair == modePairOf(histogram, Len(histogram))
  IN [ histogram |-> histogram,
       mode |-> IF modePair.count > 0 THEN Some(modePair.rating) ELSE Null,
       indecisiveShare |->
         RatioOrZero(histGet(histMap, 250) + histGet(histMap, 300), Len(rated)) ]

\* StatPack.totals: the counts of watched and rated films.
computeStatsTotals(films) ==
  LET watched == watchedFilms(films)
      rated == ratedFilms(films)
  IN [ filmsWatched |-> Len(watched),
       filmsRated |-> Len(rated),
       unratedWatched |-> Len(watched) - Len(rated),
       ratedShare |-> RatioOrZero(Len(rated), Len(watched)) ]

\* One more film in the list given to computeStats.
PushFilm ==
  \E f \in StatFilms :
    /\ statPack = Null
    /\ Len(statFilms) < MaxStatFilms
    /\ statFilms' = Append(statFilms, f)
    /\ UNCHANGED <<mergeVars, app, uploads, kv, reqs, zip, tables, merged, streakDays,
                   streaks, statPack>>

\* computeStats is applied to the list.
ComputeStats ==
  /\ statPack = Null
  /\ statPack' = Some([ totals |-> computeStatsTotals(statFilms),
                        ratings |-> computeStatsRatings(statFilms) ])
  /\ UNCHANGED <<mergeVars, app, uploads, kv, reqs, zip, tables, merged, streakDays,
                 streaks, statFilms>>

NextStats ==
  \/ PushFilm
  \/ ComputeStats

\* computeStats on any list of films.
SpecStats == Init /\ [][NextStats]_vars

\* The half-star value nearest to r, the upper one when two are as near.
NearestHalfStar(r) == CHOOSE b \in {50 * k : k \in 0..12} : b - 25 <= r /\ r < b + 25

\* C21: the histogram lists the ten buckets 0.5, 1.0, ..., 5.0 in ascending
\* order, and the count of each bucket is the number of rated films whose
\* rating has that bucket as nearest half-star value: a rating is counted in
\* that bucket and in no other, and in none when the value is outside 0.5..5.0.
C21_HistogramSnapsToNearestHalf ==
  statPack # Null =>
    LET histogram == Val(statPack).ratings.histogram
    IN /\ Len(histogram) = 10
       /\ \A i \in 1..10 :
            /\ histogram[i].rating = 50 * i
            /\ histogram[i].count =
                 Cardinality({n \in DOMAIN statFilms :
                                /\ statFilms[n].rating # Null
                                /\ NearestHalfStar(Val(statFilms[n].rating)) = 50 * i})

\* Films rated 4.3, 0.25 and 5.3: one in bucket 4.5, none in bucket 4.0, one in
\* bucket 0.5, and the third in no bucket.
C21_Witness ==
  /\ statPack # Null
  /\ {Val(statFilms[n].rating) : n \in {k \in DOMAIN statFilms : statFilms[k].rating # Null}}
       = {430, 25, 530}
  /\ Val(statPack).ratings.histogram[9].count = 1
  /\ Val(statPack).ratings.histogram[8].count = 0
  /\ Val(statPack).ratings.histogram[1].count = 1
  /\ Val(statPack).ratings.histogram[10].count = 0

\* The films of the list that computeStats takes as watched.
StatWatched ==
  {n \in DOMAIN statFilms :
     \/ statFilms[n].watched
     \/ statFilms[n].watchedAtDates # <<>>
     \/ statFilms[n].loggedAtDates # <<>>}

\* C22: totals.unratedWatched is the number of watched films without a rating
\* and is not negative, and totals.ratedShare is 0 when no film is watched, also
\* when rated films of the list are not watched.
C22_UnratedWatchedCountsFilms ==
  statPack # Null =>
    LET totals == Val(statPack).totals
    IN /\ totals.unratedWatched
            = Cardinality({n \in StatWatched : statFilms[n].rating = Null})
       /\ totals.unratedWatched >= 0
       /\ StatWatched = {} => totals.ratedShare = <<0, 1>>

(* ------------------------------------------------------------------ *)
(* The import-spike scenario                                            *)
(* ------------------------------------------------------------------ *)

\* The watched rows of the scenario, and how many of them share one import day.
SpikeWatchedRows == 500

SpikeSameDay == 200

\* The most diary rows that resolve to a film that is not in watched.
MaxExtraFilms == 301

\* The URL of the film numbered n.
UrlFilm(n) == <<"https://letterboxd.com", "/film/", ToString(n)>>

\* Watched row idx of the scenario: one film per row; the first SpikeSameDay
\* rows share the import day 2024-01-05, the others alternate between two days.
SpikeWatchedRow(idx) ==
  ("name" :> <<"Film", ToString(idx)>>) @@ ("letterboxd uri" :> UrlFilm(idx))
    @@ ("date" :> IF idx < SpikeSameDay THEN <<"2024-01-05">>
                  ELSE IF idx % 2 = 0 THEN <<"2024-03-01">> ELSE <<"2022-12-31">>)

\* Diary row idx of the scenario: the first two rows are of films in watched and
\* span three years, every later row is of a film that is not in watched.
SpikeDiaryRow(idx) ==
  CASE idx = 0 -> ("letterboxd uri" :> UrlFilm(0)) @@ ("watched date" :> <<"2021-03-01">>)
    [] idx = 1 -> ("letterboxd uri" :> UrlFilm(1)) @@ ("watched date" :> <<"2024-03-05">>)
    [] OTHER -> ("name" :> <<"Film", ToString(SpikeWatchedRows + idx)>>)
                  @@ ("letterboxd uri" :> UrlFilm(SpikeWatchedRows + idx))
                  @@ ("watched date" :> <<"2024-03-05">>)

\* The watched pass reaches the next watched row of the scenario.
SpikeWatched ==
  LET idx == cur.watched
      row == SpikeWatchedRow(idx)
      importedDate == ImportDateOfRow(row)
  IN /\ pc = "merging"
     /\ idx < SpikeWatchedRows
     /\ t' = [t EXCEPT !.watched = Append(@, row)]
     /\ cur' = [cur EXCEPT !.watched = @ + 1]
     /\ map' = watchedRow(map, row, idx)
     /\ fromWatched' = fromWatched \cup {rowKey(row, "watched", idx)}
     /\ importDayMap' = IF importedDate # Null
                          THEN bumpDay(importDayMap, Val(importedDate))
                          ELSE importDayMap
     /\ UNCHANGED <<pc, run, result, first, fromRatings, fromReviews, diaryDirectDates,
                    diaryTimelineDates>>
     /\ UNCHANGED otherVars

\* The diary pass reaches the next diary row of the scenario.
SpikeDiary ==
  LET idx == cur.diary
      row == SpikeDiaryRow(idx)
      watchedAt == diaryWatchedAt(row)
  IN /\ pc = "merging"
     /\ cur.watched = SpikeWatchedRows
     /\ idx < 2 + MaxExtraFilms
     /\ t' = [t EXCEPT !.diary = Append(@, row)]
     /\ cur' = [cur EXCEPT !.diary = @ + 1]
     /\ map' = diaryRow(map, row, idx)
     /\ diaryDirectDates' = Append(diaryDirectDates, Val(watchedAt))
     /\ diaryTimelineDates' = Append(diaryTimelineDates, Val(watchedAt))
     /\ UNCHANGED <<pc, run, result, first, fromWatched, fromRatings, fromReviews,
                    importDayMap>>
     /\ UNCHANGED otherVars

\* Two of the orders the shuffle may produce: as merged, and reversed.
SpikeShuffles(n) == {[i \in 1..n |-> i], [i \in 1..n |-> n + 1 - i]}

\* The tables of the scenario are consumed: post-process, summarise and return.
SpikeReturn ==
  /\ pc = "merging"
  /\ cur.watched = SpikeWatchedRows
  /\ cur.diary >= 2
  /\ LET out == outOf(map)
         anomaly == anomalyOf(out, importDayMap, diaryTimelineDates, diaryDirectDates)
     IN /\ \E shuffle \in SpikeShuffles(Len(out)) :
             result' = Some([ films |-> out,
                              anomaly |-> anomaly,
                              debug |-> debugOf(out, anomaly, fromWatched, fromRatings,
                                                fromReviews, shuffle) ])
        /\ map' = out
  /\ pc' = "done"
  /\ UNCHANGED <<t, cur, run, first, fromWatched, fromRatings, fromReviews, importDayMap,
                 diaryDirectDates, diaryTimelineDates>>
  /\ UNCHANGED otherVars

NextSpike ==
  \/ SpikeWatched
  \/ SpikeDiary
  \/ SpikeReturn

\* mergeTablesToFilms on the table sets of the import-spike scenario.
SpecSpike == Init /\ [][NextSpike]_vars

\* C17: for a table set with SpikeWatchedRows watched rows of which SpikeSameDay
\* share one import day, and diary dates that span three years, the merge
\* reports importSpikeDetected = true, however many diary rows resolve to films
\* that are not in watched.
C17_SpikeScenarioDetected ==
  ( /\ Done
    /\ Len(t.watched) = SpikeWatchedRows
    /\ Val(result).anomaly.largestSingleDayImportCount = SpikeSameDay
    /\ Val(result).anomaly.watchedDateSpanYears >= 300 )
  => Val(result).anomaly.importSpikeDetected

\* Ratings row idx of the scenario: a rated film that is not in watched.
SpikeRatingsRow(idx) ==
  ("name" :> <<"Film", ToString(SpikeWatchedRows + idx)>>)
    @@ ("letterboxd uri" :> UrlFilm(SpikeWatchedRows + idx))
    @@ ("rating" :> <<"3">>)

\* The ratings pass reaches the next ratings row of the scenario.
SpikeRatings ==
  LET idx == cur.ratings
      row == SpikeRatingsRow(idx)
  IN /\ pc = "merging"
     /\ cur.watched = SpikeWatchedRows
     /\ cur.diary = 0
     /\ idx < MaxExtraFilms
     /\ t' = [t EXCEPT !.ratings = Append(@, row)]
     /\ cur' = [cur EXCEPT !.ratings = @ + 1]
     /\ map' = ratingsRow(map, row, idx)
     /\ fromRatings' = fromRatings \cup {rowKey(row, "ratings", idx)}
     /\ UNCHANGED <<pc, run, result, first, fromWatched, fromReviews, importDayMap,
                    diaryDirectDates, diaryTimelineDates>>
     /\ UNCHANGED otherVars

\* The diary pass reaches one of the two diary rows of films that are in watched.
SpikeDiaryInWatched ==
  /\ cur.diary < 2
  /\ SpikeDiary

NextSpikeRatings ==
  \/ SpikeWatched
  \/ SpikeRatings
  \/ SpikeDiaryInWatched
  \/ SpikeReturn

\* mergeTablesToFilms on the table sets of the import-spike scenario with
\* ratings rows of films that are not in watched.
SpecSpikeRatings == Init /\ [][NextSpikeRatings]_vars

\* C25: importSpikeDetected is decided by the watched table and the span of the
\* diary dates alone: it is true exactly when the largest same-day import count
\* is at least 20 and at least a quarter of the number of watched rows and the
\* diary dates span more than a year, however many ratings rows there are of
\* films that are not in watched.
C25_SpikeIgnoresOtherTables ==
  (Done /\ Len(t.diary) = 2) =>
    LET a == Val(result).anomaly
    IN a.importSpikeDetected
         <=> /\ a.largestSingleDayImportCount >= SpikeMinCount
             /\ 4 * a.largestSingleDayImportCount >= Len(t.watched)
             /\ a.watchedDateSpanYears > 100

====
